---- MODULE Spec2Model ----
(***************************************************************************)
(* A model of Lorikeet's population matrix (src/src/pileup_matrix.rs):     *)
(* the aggregation calls of PileupMatrixFunctions (setup, add_sample,      *)
(* add_kmers, add_contig) and the phases of generate_distances (feature    *)
(* build, rank scan, rank selection, prediction routing).                  *)
(*                                                                         *)
(* Conventions.  A HashMap/BTreeMap is a function with a finite domain,    *)
(* the empty map is <<>>.  A Vec indexed by sample is a function over      *)
(* 0..n-1, as in the source.  An f32 quotient a / b is kept as the pair    *)
(* <<a, b>> and compared by cross multiplication (RatEq).  A variant key   *)
(* (a Rust String) is a sequence of one-character strings.                 *)
(***************************************************************************)
EXTENDS Integers, Sequences, FiniteSets, TLC

VARIABLES
    \* ---- fields of PileupMatrix::PileupContigMatrix
    coverages, average_genotypes, variances, variants, snps_map, indels_map,
    contigs, target_names, target_lengths, sample_names, kfrequencies,
    variant_counts, variant_sums,
    \* ---- the process: "run" (running) or "panic" (a Rust panic ended it)
    fault,
    \* ---- history: the last call and its arguments, the add_contig calls
    \* ---- since the maps were last emptied, the contigs add_kmers was called for
    last, hist, kmer_seen, calls,
    \* ---- generate_distances: where the call stands, and its locals
    gd_pc, todo, variant_info_all, geom_mean_var, geom_mean_dep, tmp_dir,
    nmf_calls,
    \* ---- generate_distances: the rank search and the routing of predictions
    threads, overflow_checks, nmf_out, pending, ranks_rss, best_rank, best_rss,
    predictions, prediction_variants, prediction_variants_all,
    \* ---- generate_distances: the strain files written, and the calls applied
    \* ---- to each strain's sequences
    files, applied,
    \* ---- fields of the matrix that generate_genotypes reads and writes
    dendrogram, clusters, clusters_mean,
    \* ---- generate_genotypes: where the call stands, and its locals
    gg_pc, dendro_ids, cluster_root_labels, haplotypes_vec,
    tsv,
    seed, factors, w_guard, h_guard, seed_pc, seed_todo,
    \* ---- the workers of a parallel loop, the holder of each Mutex, and the
    \* ---- threads of the rayon pool with their jobs
    workers, mutex, registry

aggVars == <<coverages, average_genotypes, variances, variants, snps_map,
             indels_map, contigs, target_names, target_lengths, sample_names,
             kfrequencies, variant_counts, variant_sums, fault, last, hist,
             kmer_seen, calls>>

rankVars == <<threads, overflow_checks, nmf_out, pending, ranks_rss, best_rank,
              best_rss, predictions, prediction_variants, prediction_variants_all>>

emitVars == <<files, applied>>

hapVars == <<dendrogram, clusters, clusters_mean, gg_pc, dendro_ids,
             cluster_root_labels, haplotypes_vec>>

\* the variables of the calls that follow generate_distances
statVars == <<tsv>>

seedVars == <<seed, factors, w_guard, h_guard, seed_pc, seed_todo>>

\* the variables of the workers of the parallel loops
parVars == <<workers, mutex, registry>>

postVars == <<hapVars, statVars, seedVars, parVars>>

gdVars == <<gd_pc, todo, variant_info_all, geom_mean_var, geom_mean_dep, tmp_dir,
            nmf_calls, rankVars, emitVars, postVars>>

vars == <<aggVars, gdVars>>

----------------------------------------------------------------------------
(* Bounds of the model *)

\* samples of the run: add_sample calls, and the sample_count of add_contig
MaxSamples == 3
\* add_contig calls
MaxCalls == 3
\* add_kmers calls
MaxKmerCalls == 2
\* setup calls
MaxSetups == 1
\* contigs of the reference (add_kmers' number_of_contigs)
NumContigs == 2

----------------------------------------------------------------------------
(* Maps and vectors *)

EmptyMap == <<>>

Put(m, k, v) == [x \in DOMAIN m \cup {k} |-> IF x = k THEN v ELSE m[x]]

\* HashMap::entry(k).or_insert(d): the map with the default put where k is absent
OrInsert(m, k, d) == IF k \in DOMAIN m THEN m ELSE Put(m, k, d)

\* vec![v; n]
VecOf(v, n) == [i \in 0..(n - 1) |-> v]

VecLen(v) == Cardinality(DOMAIN v)

\* a / b as f32, kept exact
Frac(a, b) == <<a, b>>

RatEq(p, q) == p[1] * q[2] = q[1] * p[2]

ZeroF == Frac(0, 1)

----------------------------------------------------------------------------
(* Variant keys: Rust Strings, ordered as a BTreeMap orders them *)

Alphabet == <<"A", "C", "G", "N", "R", "T">>

CharIdx(c) == CHOOSE i \in 1..Len(Alphabet) : Alphabet[i] = c

RECURSIVE StrLess(_, _)
StrLess(a, b) ==
    IF a = <<>> THEN b # <<>>
    ELSE IF b = <<>> THEN FALSE
    ELSE IF Head(a) = Head(b) THEN StrLess(Tail(a), Tail(b))
    ELSE CharIdx(Head(a)) < CharIdx(Head(b))

\* the key a BTreeMap iteration visits last
LastKey(S) == CHOOSE k \in S : \A j \in S : j = k \/ StrLess(j, k)

\* String::contains of a one-character pattern
Contains(s, c) == \E i \in 1..Len(s) : s[i] = c

----------------------------------------------------------------------------
(* Inputs of the aggregation calls *)

Tids == 0..(NumContigs - 1)

TargetName(tid) == <<"contig", tid>>
TargetLen(tid) == 20 + tid
ContigSeq(tid) == IF tid % 2 = 0 THEN <<"A", "C", "G", "T">> ELSE <<"T", "T", "A">>
SampleName(i) == <<"sample", i>>

\* variant_abundances: position -> variant -> (count, depth)
OneVariant(pos, key, ab) == pos :> (key :> ab)

Abundances == {<<5, 10>>, <<0, 8>>, <<9, 9>>}

TwoPositions == (10 :> (<<"A">> :> <<5, 10>>))
                @@ (12 :> ((<<"C">> :> <<3, 9>>) @@ (<<"T">> :> <<2, 9>>)))

VariantChoices == {EmptyMap, TwoPositions}
                  \cup {OneVariant(10, <<"A">>, ab) : ab \in Abundances}

\* (coverage, variance, mean_genotypes)
ScalarChoices == {<<1, 2, 3>>, <<4, 5, 6>>}

\* nucfrequency / indels: position -> allele -> set of read ids
ReadsNone == EmptyMap
ReadsA1 == 10 :> ("A" :> {1})
ReadsA2T == (10 :> (("A" :> {2}) @@ ("T" :> {3}))) @@ (12 :> ("T" :> {1, 2}))
ReadsEdge == (10 :> ("A" :> {})) @@ (12 :> EmptyMap)

Stats(tid, sc, va, nuc, ind) ==
    [tid |-> tid, target_name |-> TargetName(tid), target_len |-> TargetLen(tid),
     coverage |-> sc[1], variance |-> sc[2], mean_genotypes |-> sc[3],
     variant_abundances |-> va, indels |-> ind, nucfrequency |-> nuc,
     total_variants |-> Cardinality(DOMAIN va)]

\* the calls that vary the scalars and the variant abundances, on one contig
SumsCases == {<<<<1, 2, 3>>, EmptyMap>>,
              <<<<4, 5, 6>>, OneVariant(10, <<"A">>, <<5, 10>>)>>,
              <<<<1, 2, 3>>, OneVariant(10, <<"A">>, <<0, 8>>)>>,
              <<<<4, 5, 6>>, OneVariant(10, <<"A">>, <<9, 9>>)>>,
              <<<<1, 2, 3>>, TwoPositions>>}

StatsForSums == {Stats(0, c[1], c[2], ReadsA1, ReadsA1) : c \in SumsCases}

\* the calls that vary the read-support sets, on one contig
SetsCases == {<<ReadsNone, ReadsNone>>, <<ReadsA1, ReadsA2T>>, <<ReadsA2T, ReadsA1>>,
              <<ReadsEdge, ReadsA1>>, <<ReadsA1, ReadsEdge>>}

StatsForSets == {Stats(0, <<1, 2, 3>>, EmptyMap, c[1], c[2]) : c \in SetsCases}

\* the calls that vary the contig
StatsForContigs ==
    {Stats(tid, <<1, 2, 3>>, EmptyMap, ReadsNone, ReadsNone) : tid \in Tids}
    \cup {Stats(tid, <<4, 5, 6>>, OneVariant(10, <<"A">>, <<5, 10>>), ReadsA1, ReadsA1) :
              tid \in Tids}

\* k_freq: k-mer -> count
KmerChoices == {"AA" :> 1, ("AA" :> 2) @@ ("AT" :> 1)}

\* the add_kmers calls (tid, k_freq) of the specifications that vary other inputs
KmersOne == {<<0, "AA" :> 1>>}
KmersAll == Tids \X KmerChoices

\* the orders a HashMap iteration may visit the key set S in
RECURSIVE Orders(_)
Orders(S) == IF S = {} THEN {<<>>}
             ELSE UNION {{<<x>> \o o : o \in Orders(S \ {x})} : x \in S}

NoStats == Stats(0, <<0, 0, 0>>, EmptyMap, EmptyMap, EmptyMap)

Call(op, tid, idx, st, ord, kf) ==
    [op |-> op, tid |-> tid, sample_idx |-> idx, st |-> st, order |-> ord,
     k_freq |-> kf]

----------------------------------------------------------------------------
(* PileupMatrix::new_matrix *)

new_matrix ==
    /\ coverages = EmptyMap
    /\ variances = EmptyMap
    /\ average_genotypes = EmptyMap
    /\ variants = EmptyMap
    /\ snps_map = EmptyMap
    /\ indels_map = EmptyMap
    /\ contigs = EmptyMap
    /\ target_names = EmptyMap
    /\ target_lengths = EmptyMap
    /\ sample_names = <<>>
    /\ kfrequencies = EmptyMap
    /\ variant_counts = EmptyMap
    /\ variant_sums = EmptyMap
    /\ dendrogram = <<>>
    /\ clusters = EmptyMap
    /\ clusters_mean = EmptyMap

NoCalls == [add_contig |-> 0, add_kmers |-> 0, setup |-> 0]

\* generate_distances has not been called
GdIdle ==
    /\ gd_pc = "idle"
    /\ todo = {}
    /\ variant_info_all = <<>>
    /\ geom_mean_var = <<>>
    /\ geom_mean_dep = <<>>
    /\ tmp_dir = "none"
    /\ nmf_calls = {}

\* the rank search has not started
RankIdle ==
    /\ nmf_out = <<>>
    /\ pending = {}
    /\ ranks_rss = <<>>
    /\ best_rank = 0
    /\ best_rss = 0
    /\ predictions = <<>>
    /\ prediction_variants = EmptyMap
    /\ prediction_variants_all = EmptyMap

\* no strain file has been written
EmitIdle ==
    /\ files = EmptyMap
    /\ applied = EmptyMap

\* no factorization is being seeded
SeedIdle ==
    /\ seed = [kind |-> "None", rank |-> 0]
    /\ factors = <<>>
    /\ w_guard = <<>>
    /\ h_guard = <<>>
    /\ seed_pc = "idle"
    /\ seed_todo = {}

\* print_variant_stats has not been called
StatIdle == tsv = [created |-> FALSE, lines |-> <<>>, open |-> <<>>]

\* generate_genotypes has not been called
HapIdle ==
    /\ gg_pc = "idle"
    /\ dendro_ids = EmptyMap
    /\ cluster_root_labels = <<>>
    /\ haplotypes_vec = <<>>

\* no Mutex is held by a worker; no parallel loop is followed worker by worker
Free == <<>>
MutexNew ==
    [m \in {"geom_mean_var", "geom_mean_dep", "variant_info_all", "w_guard",
             "h_guard"} |-> Free]
ParIdle == workers = <<>> /\ mutex = MutexNew /\ registry = <<>>

\* the calls that follow generate_distances have not been made
PostIdle == HapIdle /\ StatIdle /\ SeedIdle /\ ParIdle

\* no clustering has filled the fields generate_genotypes reads
NoClusters ==
    /\ dendrogram = <<>>
    /\ clusters = EmptyMap
    /\ clusters_mean = EmptyMap

Init ==
    /\ new_matrix
    /\ fault = "run"
    /\ last = Call("new_matrix", 0, 0, NoStats, <<>>, EmptyMap)
    /\ hist = {}
    /\ kmer_seen = {}
    /\ calls = NoCalls
    /\ GdIdle
    /\ threads = 1
    /\ overflow_checks = FALSE
    /\ RankIdle
    /\ EmitIdle
    /\ PostIdle

----------------------------------------------------------------------------
(* setup, add_sample, add_kmers *)

\* setup leaves the variants map as it is
setup_keeps_variants ==
    /\ fault = "run"
    /\ calls.setup < MaxSetups
    /\ calls' = [calls EXCEPT !.setup = @ + 1]
    /\ coverages' = EmptyMap
    /\ average_genotypes' = EmptyMap
    /\ snps_map' = EmptyMap
    /\ indels_map' = EmptyMap
    /\ contigs' = EmptyMap
    /\ target_names' = EmptyMap
    /\ target_lengths' = EmptyMap
    /\ sample_names' = <<>>
    /\ kfrequencies' = EmptyMap
    /\ last' = Call("setup", 0, 0, NoStats, <<>>, EmptyMap)
    /\ hist' = {}
    /\ kmer_seen' = {}
    /\ UNCHANGED <<variants, variances, variant_counts, variant_sums, fault, gdVars>>

\* lines 100-127
setup ==
    /\ fault = "run"
    /\ calls.setup < MaxSetups
    /\ calls' = [calls EXCEPT !.setup = @ + 1]
    /\ coverages' = EmptyMap
    /\ average_genotypes' = EmptyMap
    /\ variants' = EmptyMap
    /\ snps_map' = EmptyMap
    /\ indels_map' = EmptyMap
    /\ contigs' = EmptyMap
    /\ target_names' = EmptyMap
    /\ target_lengths' = EmptyMap
    /\ sample_names' = <<>>
    /\ kfrequencies' = EmptyMap
    /\ last' = Call("setup", 0, 0, NoStats, <<>>, EmptyMap)
    /\ hist' = {}
    /\ kmer_seen' = {}
    /\ UNCHANGED <<variances, variant_counts, variant_sums, fault, gdVars>>

add_sample ==
    /\ fault = "run"
    /\ Len(sample_names) < MaxSamples
    /\ sample_names' = Append(sample_names, SampleName(Len(sample_names)))
    /\ last' = Call("add_sample", 0, 0, NoStats, <<>>, EmptyMap)
    /\ UNCHANGED <<coverages, average_genotypes, variances, variants, snps_map,
                   indels_map, contigs, target_names, target_lengths, kfrequencies,
                   variant_counts, variant_sums, fault, hist, kmer_seen, calls,
                   gdVars>>

\* the table after the loop over k_freq: count_vec[tid] = count, for every k-mer
KmersWritten(kf, tid, number_of_contigs, k_freq) ==
    [tet \in DOMAIN kf \cup DOMAIN k_freq |->
        IF tet \in DOMAIN k_freq
        THEN [OrInsert(kf, tet, VecOf(0, number_of_contigs))[tet]
                  EXCEPT ![tid] = k_freq[tet]]
        ELSE kf[tet]]

\* the table written on every call
KmersAlways(kf, lengths, tid, number_of_contigs, k_freq) ==
    KmersWritten(kf, tid, number_of_contigs, k_freq)

KmersAfter(kf, lengths, tid, number_of_contigs, k_freq) ==
    IF tid \notin DOMAIN lengths
    THEN KmersWritten(kf, tid, number_of_contigs, k_freq)
    ELSE kf

add_kmers(tid, number_of_contigs, k_freq) ==
    /\ fault = "run"
    /\ calls.add_kmers < MaxKmerCalls
    /\ kfrequencies' = KmersAfter(kfrequencies, target_lengths, tid,
                                  number_of_contigs, k_freq)
    /\ last' = Call("add_kmers", tid, 0, NoStats, <<>>, k_freq)
    /\ kmer_seen' = kmer_seen \cup {tid}
    /\ calls' = [calls EXCEPT !.add_kmers = @ + 1]
    /\ UNCHANGED <<coverages, average_genotypes, variances, variants, snps_map,
                   indels_map, contigs, target_names, target_lengths, sample_names,
                   variant_counts, variant_sums, fault, hist, gdVars>>

----------------------------------------------------------------------------
(* add_contig *)

\* a slot written only when the contig's vector is created
SlotWrittenOnce(m, tid, sample_count, sample_idx, value) ==
    IF tid \in DOMAIN m THEN m
    ELSE Put(m, tid, [VecOf(0, sample_count) EXCEPT ![sample_idx] = value])

\* the vector of the contig is made anew by every call
SlotWrittenFresh(m, tid, sample_count, sample_idx, value) ==
    Put(m, tid, [VecOf(0, sample_count) EXCEPT ![sample_idx] = value])

\* cov[sample_idx] = coverage on entry(tid).or_insert(vec![0.0; sample_count])
SlotWritten(m, tid, sample_count, sample_idx, value) ==
    Put(m, tid, [OrInsert(m, tid, VecOf(0, sample_count))[tid]
                     EXCEPT ![sample_idx] = value])

\* the index sample_idx is outside the vector stored for tid
SlotOutOfRange(m, tid, sample_idx) ==
    tid \in DOMAIN m /\ sample_idx \notin DOMAIN m[tid]

\* variants[tid] after the loops over variant_abundances (lines 223-234)
ContigVariantsAfter(cv, va, sample_count, sample_idx) ==
    [pos \in DOMAIN cv \cup DOMAIN va |->
        LET position_variants == OrInsert(cv, pos, EmptyMap)[pos]
        IN  IF pos \notin DOMAIN va THEN position_variants
            ELSE [variant \in DOMAIN position_variants \cup DOMAIN va[pos] |->
                    LET sample_map ==
                            OrInsert(position_variants, variant,
                                     VecOf(<<0, 0>>, sample_count))[variant]
                    IN  IF variant \in DOMAIN va[pos]
                        THEN [sample_map EXCEPT ![sample_idx] = va[pos][variant]]
                        ELSE sample_map]]

VariantsAfter(vs, st, sample_count, sample_idx) ==
    LET withTid == OrInsert(vs, st.tid, EmptyMap)
    IN  IF st.total_variants > 0
        THEN Put(withTid, st.tid,
                 ContigVariantsAfter(withTid[st.tid], st.variant_abundances,
                                     sample_count, sample_idx))
        ELSE withTid

VariantSlotOutOfRange(vs, st, sample_idx) ==
    /\ st.total_variants > 0
    /\ st.tid \in DOMAIN vs
    /\ \E pos \in DOMAIN st.variant_abundances \cap DOMAIN vs[st.tid] :
         \E variant \in DOMAIN st.variant_abundances[pos] \cap DOMAIN vs[st.tid][pos] :
            sample_idx \notin DOMAIN vs[st.tid][pos][variant]

RECURSIVE SumCounts(_, _)
SumCounts(abundance_map, S) ==
    IF S = {} THEN 0
    ELSE LET v == CHOOSE v \in S : TRUE
         IN  abundance_map[v][1] + SumCounts(abundance_map, S \ {v})

\* ref_depth taken after variant_depth += 1
RefDepthAfterPseudocount(total_depth, variant_depth) ==
    total_depth - (variant_depth + 1)

\* ref_depth = total_depth - variant_depth, taken before variant_depth += 1
RefDepth(total_depth, variant_depth) == total_depth - variant_depth

\* the three values of one variant position (lines 226-245)
PositionSums(abundance_map) ==
    LET counted == SumCounts(abundance_map, DOMAIN abundance_map)
        total_depth == abundance_map[LastKey(DOMAIN abundance_map)][2] + 1
        ref_depth == RefDepth(total_depth, counted)
        variant_depth == counted + 1
    IN  <<Frac(variant_depth, total_depth), Frac(total_depth, 1),
          Frac(ref_depth, total_depth)>>

\* vec![vec![0.; n]; 3]
ZeroTable(n) == [row \in 0..2 |-> VecOf(ZeroF, n)]

\* contig_sums after the loop: ordinal i holds the values of position order[i + 1]
ContigSumsAfter(contig_sums, va, order) ==
    [row \in 0..2 |->
        [i \in DOMAIN contig_sums[row] |->
            IF i < Len(order) THEN PositionSums(va[order[i + 1]])[row + 1]
            ELSE contig_sums[row][i]]]

SumsAfter(sums, st, sample_idx, order) ==
    LET sample_sums == OrInsert(sums, sample_idx, EmptyMap)[sample_idx]
        contig_sums ==
            OrInsert(sample_sums, st.tid,
                     ZeroTable(IF st.total_variants > 0 THEN st.total_variants
                               ELSE 1))[st.tid]
    IN  Put(sums, sample_idx,
            Put(sample_sums, st.tid,
                IF st.total_variants > 0
                THEN ContigSumsAfter(contig_sums, st.variant_abundances, order)
                ELSE contig_sums))

SumsOutOfRange(sums, st, sample_idx, order) ==
    /\ st.total_variants > 0
    /\ sample_idx \in DOMAIN sums
    /\ st.tid \in DOMAIN sums[sample_idx]
    /\ Len(order) > VecLen(sums[sample_idx][st.tid][0])

CountsAfter(counts, st, sample_idx, order) ==
    Put(counts, sample_idx,
        Put(OrInsert(counts, sample_idx, EmptyMap)[sample_idx], st.tid,
            IF st.total_variants > 0 THEN Len(order) ELSE 0))

\* BTreeSet::difference in place of BTreeSet::union
ReadSetDifference(read_map, read_set) ==
    IF Cardinality(read_map) = 0 THEN read_set ELSE read_map \ read_set

\* the incoming read set dropped when the allele already has reads
ReadSetKept(read_map, read_set) ==
    IF Cardinality(read_map) = 0 THEN read_set ELSE read_map

\* the read set stored for one allele after a call (lines 290-298, 315-323)
ReadSetMerged(read_map, read_set) ==
    IF Cardinality(read_map) = 0 THEN read_set ELSE read_map \cup read_set

\* the per-contig SNP (indel) map after a call (lines 279-302, 304-327)
ReadsMerged(stored, incoming) ==
    IF Cardinality(DOMAIN stored) = 0 THEN incoming
    ELSE [pos \in DOMAIN stored \cup DOMAIN incoming |->
            IF pos \notin DOMAIN incoming THEN stored[pos]
            ELSE LET position_reads == OrInsert(stored, pos, EmptyMap)[pos]
                 IN  IF Cardinality(DOMAIN position_reads) = 0 THEN incoming[pos]
                     ELSE [allele \in DOMAIN position_reads \cup DOMAIN incoming[pos] |->
                             IF allele \notin DOMAIN incoming[pos]
                             THEN position_reads[allele]
                             ELSE ReadSetMerged(
                                      OrInsert(position_reads, allele, {})[allele],
                                      incoming[pos][allele])]]

ReadsAfter(m, tid, incoming) ==
    Put(m, tid, ReadsMerged(OrInsert(m, tid, EmptyMap)[tid], incoming))

\* the fields of the matrix that add_contig writes, as one record
MatrixNow ==
    [coverages |-> coverages, average_genotypes |-> average_genotypes,
     variances |-> variances, variants |-> variants, snps_map |-> snps_map,
     indels_map |-> indels_map, contigs |-> contigs, target_names |-> target_names,
     target_lengths |-> target_lengths, variant_counts |-> variant_counts,
     variant_sums |-> variant_sums]

MatrixNew ==
    [coverages |-> EmptyMap, average_genotypes |-> EmptyMap, variances |-> EmptyMap,
     variants |-> EmptyMap, snps_map |-> EmptyMap, indels_map |-> EmptyMap,
     contigs |-> EmptyMap, target_names |-> EmptyMap, target_lengths |-> EmptyMap,
     variant_counts |-> EmptyMap, variant_sums |-> EmptyMap]

AddContigPanics(M, st, sample_idx, order) ==
    \/ SlotOutOfRange(M.average_genotypes, st.tid, sample_idx)
    \/ SlotOutOfRange(M.variances, st.tid, sample_idx)
    \/ SlotOutOfRange(M.coverages, st.tid, sample_idx)
    \/ VariantSlotOutOfRange(M.variants, st, sample_idx)
    \/ SumsOutOfRange(M.variant_sums, st, sample_idx, order)

\* the matrix M after an add_contig call that returns
AddContigTo(M, st, sample_count, sample_idx, contig, order) ==
    [average_genotypes |-> SlotWritten(M.average_genotypes, st.tid, sample_count,
                                       sample_idx, st.mean_genotypes),
     variances |-> SlotWritten(M.variances, st.tid, sample_count, sample_idx,
                               st.variance),
     coverages |-> SlotWritten(M.coverages, st.tid, sample_count, sample_idx,
                               st.coverage),
     target_names |-> OrInsert(M.target_names, st.tid, st.target_name),
     target_lengths |-> OrInsert(M.target_lengths, st.tid, st.target_len),
     variants |-> VariantsAfter(M.variants, st, sample_count, sample_idx),
     variant_sums |-> SumsAfter(M.variant_sums, st, sample_idx, order),
     variant_counts |-> CountsAfter(M.variant_counts, st, sample_idx, order),
     indels_map |-> ReadsAfter(M.indels_map, st.tid, st.indels),
     snps_map |-> ReadsAfter(M.snps_map, st.tid, st.nucfrequency),
     contigs |-> OrInsert(M.contigs, st.tid, contig)]

\* the variables hold the matrix M
MatrixIs(M) ==
    /\ average_genotypes = M.average_genotypes
    /\ variances = M.variances
    /\ coverages = M.coverages
    /\ target_names = M.target_names
    /\ target_lengths = M.target_lengths
    /\ variants = M.variants
    /\ variant_sums = M.variant_sums
    /\ variant_counts = M.variant_counts
    /\ indels_map = M.indels_map
    /\ snps_map = M.snps_map
    /\ contigs = M.contigs

\* the variables take the matrix M in the next state
MatrixBecomes(M) ==
    /\ average_genotypes' = M.average_genotypes
    /\ variances' = M.variances
    /\ coverages' = M.coverages
    /\ target_names' = M.target_names
    /\ target_lengths' = M.target_lengths
    /\ variants' = M.variants
    /\ variant_sums' = M.variant_sums
    /\ variant_counts' = M.variant_counts
    /\ indels_map' = M.indels_map
    /\ snps_map' = M.snps_map
    /\ contigs' = M.contigs

add_contig(st, sample_count, sample_idx, contig, order) ==
    /\ fault = "run"
    /\ calls.add_contig < MaxCalls
    /\ calls' = [calls EXCEPT !.add_contig = @ + 1]
    /\ last' = Call("add_contig", st.tid, sample_idx, st, order, EmptyMap)
    /\ IF AddContigPanics(MatrixNow, st, sample_idx, order)
       THEN /\ fault' = "panic"
            /\ UNCHANGED <<coverages, average_genotypes, variances, variants,
                           snps_map, indels_map, contigs, target_names,
                           target_lengths, variant_counts, variant_sums, hist>>
       ELSE /\ MatrixBecomes(AddContigTo(MatrixNow, st, sample_count, sample_idx,
                                         contig, order))
            /\ hist' = hist \cup {[tid |-> st.tid, sample_idx |-> sample_idx,
                                   nucfrequency |-> st.nucfrequency,
                                   indels |-> st.indels]}
            /\ UNCHANGED fault
    /\ UNCHANGED <<sample_names, kfrequencies, kmer_seen, gdVars>>

----------------------------------------------------------------------------
(* The aggregation calls, over a set of PileupStats *)

AddKmers(KmerSet) ==
    \E k \in KmerSet : add_kmers(k[1], NumContigs, k[2])

\* sample_count is the number of samples of the run; a sample's statistics are
\* recorded once its name is registered
AddContig(StatsSet) ==
    \E st \in StatsSet, sample_idx \in 0..(Len(sample_names) - 1) :
        \E order \in Orders(DOMAIN st.variant_abundances) :
            add_contig(st, MaxSamples, sample_idx, ContigSeq(st.tid), order)

\* the calls on one contig, varying the scalars and the variant abundances
Next ==
    \/ setup
    \/ add_sample
    \/ AddKmers(KmersOne)
    \/ AddContig(StatsForSums)

Spec == Init /\ [][Next]_vars

\* the calls on one contig, varying the read-support sets
NextSets ==
    \/ setup
    \/ add_sample
    \/ AddKmers(KmersOne)
    \/ AddContig(StatsForSets)

SpecSets == Init /\ [][NextSets]_vars

\* the calls on every contig, varying the k-mer counts
NextContigs ==
    \/ setup
    \/ add_sample
    \/ AddKmers(KmersAll)
    \/ AddContig(StatsForContigs)

SpecContigs == Init /\ [][NextContigs]_vars

----------------------------------------------------------------------------
(* Aggregation: the properties checked *)

\* the last call was an add_contig that returned
Added == last.op = "add_contig" /\ fault = "run"

\* The sum table of the sample and contig of the call that just returned holds,
\* at the ordinal of every position with one variant (c, d), the values
\* (c+1)/(d+1), d+1 and RefOf(c, d)/(d+1); a contig with one variant position
\* has variant count 1.
SumsOfLastCall(RefOf(_, _)) ==
    Added =>
        LET va == last.st.variant_abundances
            table == variant_sums[last.sample_idx][last.tid]
        IN  /\ \A i \in 1..Len(last.order) :
                 LET abundance_map == va[last.order[i]]
                     ab == abundance_map[CHOOSE v \in DOMAIN abundance_map : TRUE]
                 IN  Cardinality(DOMAIN abundance_map) = 1 =>
                        /\ RatEq(table[0][i - 1], Frac(ab[1] + 1, ab[2] + 1))
                        /\ RatEq(table[1][i - 1], Frac(ab[2] + 1, 1))
                        /\ RatEq(table[2][i - 1], Frac(RefOf(ab[1], ab[2]), ab[2] + 1))
            /\ Cardinality(DOMAIN va) = 1 =>
                 variant_counts[last.sample_idx][last.tid] = 1

\* contig 0 holds variant "A" at position 10 with (5,10), (0,8), (9,9) in samples
\* 0, 1, 2, each recorded by a call with that one variant position
ExampleRecorded ==
    /\ fault = "run"
    /\ 0 \in DOMAIN variants
    /\ 10 \in DOMAIN variants[0]
    /\ <<"A">> \in DOMAIN variants[0][10]
    /\ variants[0][10][<<"A">>] = (0 :> <<5, 10>>) @@ (1 :> <<0, 8>>) @@ (2 :> <<9, 9>>)
    /\ \A s \in 0..2 : /\ s \in DOMAIN variant_counts
                       /\ 0 \in DOMAIN variant_counts[s]
                       /\ variant_counts[s][0] = 1

ExampleRows(refRow) ==
    \A s \in 0..2 :
        /\ RatEq(variant_sums[s][0][0][0], <<Frac(6, 11), Frac(1, 9), Frac(10, 10)>>[s + 1])
        /\ RatEq(variant_sums[s][0][2][0], refRow[s + 1])

RefWithPseudocount(c, d) == d - c + 1
RefAsClaimed(c, d) == d - c

\* C1 (as amended): after add_contig records a contig for one sample, the sum
\* table holds at the ordinal of a position whose only variant has (count c,
\* depth d) the variant-frequency (c+1)/(d+1), the total depth d+1 and the
\* reference-frequency (d-c+1)/(d+1), and a contig with one variant position has
\* variant count 1; for (5,10), (0,8), (9,9) in three samples the
\* variant-frequency row is [6/11, 1/9, 10/10] and the reference-frequency row is
\* [6/11, 9/9, 1/10].
C1_SumsWithPseudocount ==
    /\ SumsOfLastCall(RefWithPseudocount)
    /\ ExampleRecorded => ExampleRows(<<Frac(6, 11), Frac(9, 9), Frac(1, 10)>>)

\* C1 witness: the three samples of the example are recorded, the last by a
\* call that just returned
C1_Witness == ExampleRecorded /\ Added /\ last.st.variant_abundances # EmptyMap

\* C1 (as claimed): the reference-frequency is (d-c)/(d+1), and the example's
\* reference-frequency row is [5/11, 8/9, 0/10].
C1_Original ==
    /\ SumsOfLastCall(RefAsClaimed)
    /\ ExampleRecorded => ExampleRows(<<Frac(5, 11), Frac(8, 9), Frac(0, 10)>>)

\* C2: after an add_contig call for (contig, sample index) returns, the
\* coverage, variance and mean-genotype slots of that sample for that contig hold
\* the values of that call, whatever an earlier call stored there.
C2_ScalarsOverwritten ==
    Added =>
        /\ coverages[last.tid][last.sample_idx] = last.st.coverage
        /\ variances[last.tid][last.sample_idx] = last.st.variance
        /\ average_genotypes[last.tid][last.sample_idx] = last.st.mean_genotypes

\* C2 witness: sample 0 of contig 0 still holds the variant (9,9), which only a
\* call with the scalars (4,5,6) records, and a later call has set the scalars
\* (1,2,3)
C2_Witness ==
    /\ Added
    /\ last.sample_idx = 0
    /\ last.st.coverage = 1
    /\ 10 \in DOMAIN variants[0]
    /\ variants[0][10][<<"A">>][0] = <<9, 9>>
    /\ coverages[0][0] = 1 /\ variances[0][0] = 2 /\ average_genotypes[0][0] = 3

\* the step is an add_contig call that returns and repeats the read-support
\* sets of the add_contig call before it, on the same contig
RepeatsReads ==
    /\ last.op = "add_contig"
    /\ last'.op = "add_contig"
    /\ fault' = "run"
    /\ last'.tid = last.tid
    /\ last'.st.nucfrequency = last.st.nucfrequency
    /\ last'.st.indels = last.st.indels

\* C3: an add_contig call that repeats the SNP and indel read-support sets of the
\* call before it leaves the per-contig SNP and indel maps as they were.
C3_RepeatIsIdempotent ==
    [][RepeatsReads => (snps_map' = snps_map /\ indels_map' = indels_map)]_vars

\* C3 witness: two calls were made with one and the same pair of read-support
\* sets, which are not empty
C3_Witness ==
    /\ calls.add_contig = 2
    /\ calls.setup = 0
    /\ {<<h.nucfrequency, h.indels>> : h \in hist} = {<<ReadsA2T, ReadsA1>>}
    /\ snps_map[0] = ReadsA2T
    /\ indels_map[0] = ReadsA1

\* the per-position per-allele union of a set of read-support maps
UnionOfReads(M) ==
    [pos \in UNION {DOMAIN m : m \in M} |->
        LET at == {m[pos] : m \in {n \in M : pos \in DOMAIN n}}
        IN  [allele \in UNION {DOMAIN a : a \in at} |->
                UNION {a[allele] : a \in {b \in at : allele \in DOMAIN b}}]]

UnionOnContig(tid, field) ==
    UnionOfReads({h[field] : h \in {g \in hist : g.tid = tid}})

\* C4: whatever the order of the add_contig calls, the per-contig SNP and indel
\* maps are the per-position per-allele union of the inputs of the calls made.
C4_ReadsAreUnionOfInputs ==
    /\ DOMAIN snps_map = {h.tid : h \in hist}
    /\ DOMAIN indels_map = {h.tid : h \in hist}
    /\ \A tid \in DOMAIN snps_map :
          /\ snps_map[tid] = UnionOnContig(tid, "nucfrequency")
          /\ indels_map[tid] = UnionOnContig(tid, "indels")

\* C4 witness: two samples gave overlapping SNP sets and the map holds their union
C4_Witness ==
    /\ \E g, h \in hist : /\ g.sample_idx # h.sample_idx
                          /\ g.nucfrequency = ReadsA1
                          /\ h.nucfrequency = ReadsA2T
    /\ snps_map[0][10]["A"] = {1, 2}
    /\ snps_map[0][12]["T"] = {1, 2}

\* the step is an add_kmers call
KmersCalled == last'.op = "add_kmers"

\* C5 (as amended): add_kmers leaves the k-mer table unchanged when add_contig
\* has already recorded the contig id; every add_kmers call before that, the
\* first or a later one, writes its counts into the contig's column.
C5_KmersSkippedOnceContigRecorded ==
    [][KmersCalled =>
          IF last'.tid \in DOMAIN target_lengths
          THEN kfrequencies' = kfrequencies
          ELSE \A tet \in DOMAIN last'.k_freq :
                  kfrequencies'[tet][last'.tid] = last'.k_freq[tet]]_vars

\* C5 witness: an add_kmers call for a recorded contig brought counts the table
\* does not hold
C5_Witness ==
    /\ last.op = "add_kmers"
    /\ last.tid \in DOMAIN target_lengths
    /\ \E tet \in DOMAIN last.k_freq :
          \/ tet \notin DOMAIN kfrequencies
          \/ kfrequencies[tet][last.tid] # last.k_freq[tet]

\* C5 (as claimed): only the first add_kmers call for a contig id changes the
\* table; every later one leaves it unchanged.
C5_Original ==
    [][(KmersCalled /\ last'.tid \in kmer_seen) => kfrequencies' = kfrequencies]_vars

----------------------------------------------------------------------------
(* generate_distances: the variant feature list and the geometric means *)

\* The f64 values of the accumulators.  A value v with 0 <= v < 128 that is a
\* multiple of 2^-53 is the pair <<hi, lo>> with v * 2^53 = hi * Limb + lo; every
\* f64 in [1/2, 128) is such a value.
Limb == 2^30

\* 1. as f64
F64One == <<2^23, 0>>

\* the spacing of the f64 values around v, in units of 2^-53: 2 in [1, 2),
\* 4 in [2, 4), and so on; values below 1 are kept as they are
RECURSIVE Ulp(_, _)
Ulp(hi, k) == IF hi < 2^(23 + k) THEN 2^k ELSE Ulp(hi, k + 1)

\* an exact sum rounded to the nearest f64, ties to the even significand
F64Round(hi, lo) ==
    LET step == Ulp(hi, 0)
        rest == lo % step
        down == lo - rest
        up == \/ 2 * rest > step
              \/ 2 * rest = step /\ (down \div step) % 2 = 1
        low == IF up THEN down + step ELSE down
    IN  <<hi + (low \div Limb), low % Limb>>

\* x + y of two f64 values
F64Add(x, y) ==
    LET lo == x[2] + y[2]
    IN  F64Round(x[1] + y[1] + (lo \div Limb), lo % Limb)

\* (k as f64).ln() for k = 1, 2, ..: the f64 values of the natural logarithm
Ln64Table ==
    <<<<0, 0>>, <<5814539, 1056586223>>, <<9215827, 895092246>>,
      <<11629079, 1039430622>>, <<13500943, 802888294>>, <<15030367, 877936644>>,
      <<16323477, 476361902>>, <<17443619, 1022275020>>, <<18431655, 716442668>>,
      <<19315483, 785732696>>, <<20115003, 503110960>>, <<20844907, 860781044>>,
      <<21516354, 751186244>>, <<22138017, 459206300>>, <<22716771, 624238716>>,
      <<23258159, 1005119420>>, <<23766716, 132775400>>, <<24246195, 699287064>>,
      <<24699744, 403885232>>, <<25130023, 768577092>>, <<25539305, 297712324>>,
      <<25929543, 485955360>>, <<26302431, 927387584>>, <<26659447, 843625444>>,
      <<27001887, 532034764>>, <<27330894, 734030644>>, <<27647483, 537793088>>,
      <<27952557, 442050700>>, <<28246924, 792197244>>, <<28531311, 607083116>>,
      <<28806372, 574926184>>, <<29072699, 987963820>>>>

Ln64(k) == Ln64Table[k]

\* an f64 that holds base + ln(prod): the sum as a real number, and in bits the
\* f64 that the additions made so far have left
LogSum(base, prod) ==
    [base |-> base, prod |-> prod,
     bits |-> IF base = 1 /\ prod = 1 THEN F64One ELSE <<0, 0>>]

\* sum += x.ln()
AddLn(sum, x) == [sum EXCEPT !.prod = @ * x, !.bits = F64Add(@, Ln64(x))]

\* vec![1. as f64; sample_count]
AccumulatorsNew(sample_count) == VecOf(LogSum(1, 1), sample_count)

\* (sum / n).exp()
GeomMean(sum, n) == [base |-> sum.base, prod |-> sum.prod, n |-> n]

GeomMeanIsOne(g) == g.base = 0 /\ g.prod = 1

\* the (tid, position, variant) entries of the variants map
VariantTasks(vs) ==
    UNION {UNION {{<<tid, pos, var>> : var \in DOMAIN vs[tid][pos]} :
                     pos \in DOMAIN vs[tid]} : tid \in DOMAIN vs}

\* the samples of abundances_vector with a count above zero, in index order
RECURSIVE Observed(_, _)
Observed(abundances_vector, i) ==
    IF i >= VecLen(abundances_vector) THEN <<>>
    ELSE (IF abundances_vector[i][1] > 0 THEN <<i>> ELSE <<>>)
         \o Observed(abundances_vector, i + 1)

\* freqs: count + 1 pushed where the count is above zero, 1 elsewhere
FreqsOf(abundances_vector) ==
    [i \in 1..VecLen(abundances_vector) |->
        IF abundances_vector[i - 1][1] > 0 THEN abundances_vector[i - 1][1] + 1
        ELSE 1]

\* depths: depth + 1 pushed where the count is above zero
DepthsOf(abundances_vector) ==
    LET seen == Observed(abundances_vector, 0)
    IN  [i \in 1..Len(seen) |-> abundances_vector[seen[i]][2] + 1]

\* accumulator[sample_idx] += (value + 1).ln(), where the count is above zero
Accumulated(accumulator, abundances_vector, field) ==
    [s \in DOMAIN accumulator |->
        IF s \in DOMAIN abundances_vector /\ abundances_vector[s][1] > 0
        THEN AddLn(accumulator[s], abundances_vector[s][field] + 1)
        ELSE accumulator[s]]

\* contig_coverages[sample_idx] or geom_mean_var[sample_idx] past the end
FeatureOutOfRange(tid, abundances_vector) ==
    \E s \in DOMAIN abundances_vector :
        /\ abundances_vector[s][1] > 0
        /\ \/ s \notin DOMAIN coverages[tid]
           \/ s \notin DOMAIN geom_mean_var

\* lines 350-368: the locals of the call
gd_begin ==
    /\ fault = "run"
    /\ gd_pc = "start"
    /\ gd_pc' = "build"
    /\ variant_info_all' = <<>>
    /\ geom_mean_var' = AccumulatorsNew(Len(sample_names))
    /\ geom_mean_dep' = AccumulatorsNew(Len(sample_names))
    /\ todo' = VariantTasks(variants)
    /\ UNCHANGED <<aggVars, tmp_dir, nmf_calls, rankVars, emitVars, postVars>>

\* one pass of the loop over the variants of a position, in a worker
gd_variant(tid, pos, var) ==
    /\ fault = "run"
    /\ gd_pc = "build"
    /\ <<tid, pos, var>> \in todo
    /\ todo' = todo \ {<<tid, pos, var>>}
    /\ LET abundances_vector == variants[tid][pos][var]
       IN  IF tid \notin DOMAIN coverages \/ VecLen(coverages[tid]) = 0
           THEN /\ fault' = "panic"
                /\ UNCHANGED <<variant_info_all, geom_mean_var, geom_mean_dep>>
           ELSE IF Contains(var, "R")
           THEN UNCHANGED <<fault, variant_info_all, geom_mean_var, geom_mean_dep>>
           ELSE IF FeatureOutOfRange(tid, abundances_vector)
           THEN /\ fault' = "panic"
                /\ UNCHANGED <<variant_info_all, geom_mean_var, geom_mean_dep>>
           ELSE /\ geom_mean_var' = Accumulated(geom_mean_var, abundances_vector, 1)
                /\ geom_mean_dep' = Accumulated(geom_mean_dep, abundances_vector, 2)
                /\ variant_info_all' =
                       Append(variant_info_all,
                              [position |-> pos, var |-> var,
                               depths |-> DepthsOf(abundances_vector),
                               freqs |-> FreqsOf(abundances_vector), tid |-> tid])
                /\ UNCHANGED fault
    /\ UNCHANGED <<coverages, average_genotypes, variances, variants, snps_map,
                   indels_map, contigs, target_names, target_lengths, sample_names,
                   kfrequencies, variant_counts, variant_sums, last, hist, kmer_seen,
                   calls, gd_pc, tmp_dir, nmf_calls, rankVars, emitVars, postVars>>

\* one variant is taken for enough
OneEnough(n) == n > 0

\* line 430: variant_info_all.len() > 1
EnoughVariants(n) == n > 1

\* lines 430-475 and 801-803: the workers have joined
gd_collect ==
    /\ fault = "run"
    /\ gd_pc = "build"
    /\ todo = {}
    /\ IF EnoughVariants(Len(variant_info_all))
       THEN /\ geom_mean_var' = [s \in DOMAIN geom_mean_var |->
                                    GeomMean(geom_mean_var[s], Len(variant_info_all))]
            /\ geom_mean_dep' = [s \in DOMAIN geom_mean_dep |->
                                    GeomMean(geom_mean_dep[s], Len(variant_info_all))]
            /\ tmp_dir' = "created"
            /\ gd_pc' = "distances"
       ELSE /\ gd_pc' = "done"
            /\ UNCHANGED <<geom_mean_var, geom_mean_dep, tmp_dir>>
    /\ UNCHANGED <<aggVars, todo, variant_info_all, nmf_calls, rankVars,
                   emitVars, postVars>>

\* the positions run in any order; the worker of a position takes its variants
\* in the order of the BTreeMap
GdVariant ==
    \E task \in todo :
        /\ \A other \in todo :
              (other[1] = task[1] /\ other[2] = task[2] /\ other # task)
                  => StrLess(task[3], other[3])
        /\ gd_variant(task[1], task[2], task[3])

\* the variant abundances of the samples of a run
FeatureA == (10 :> (<<"A">> :> <<5, 10>>))
            @@ (12 :> ((<<"C">> :> <<3, 9>>) @@ (<<"R">> :> <<6, 9>>)))
FeatureB == OneVariant(10, <<"A">>, <<0, 8>>)
FeatureC == (10 :> (<<"A">> :> <<9, 9>>)) @@ (12 :> (<<"T">> :> <<2, 9>>))
FeatureD == (10 :> (<<"A">> :> <<0, 8>>)) @@ (12 :> (<<"C">> :> <<0, 9>>))
FeatureR == OneVariant(10, <<"R">>, <<7, 7>>)

\* the add_contig calls (tid, sample_idx, variant abundances) before the call
FeatureRuns ==
    {<<<<0, 0, FeatureA>>, <<0, 1, FeatureB>>, <<0, 2, FeatureC>>>>,
     <<<<0, 0, FeatureA>>, <<1, 1, FeatureC>>>>,
     <<<<0, 0, FeatureD>>, <<0, 1, FeatureD>>>>,
     <<<<0, 0, FeatureB>>, <<1, 0, FeatureR>>>>,
     <<<<0, 0, EmptyMap>>>>,
     <<>>}

RECURSIVE MatrixAfter(_)
MatrixAfter(run) ==
    IF run = <<>> THEN MatrixNew
    ELSE LET c == run[Len(run)]
             st == Stats(c[1], <<1, 2, 3>>, c[3], ReadsNone, ReadsNone)
         IN  AddContigTo(MatrixAfter(SubSeq(run, 1, Len(run) - 1)), st, MaxSamples,
                         c[2], ContigSeq(c[1]),
                         CHOOSE order \in Orders(DOMAIN c[3]) : TRUE)

\* generate_distances is called on a matrix that the aggregation calls filled
InitFeatures ==
    \E run \in FeatureRuns :
        /\ MatrixIs(MatrixAfter(run))
        /\ sample_names = [i \in 1..MaxSamples |-> SampleName(i - 1)]
        /\ kfrequencies = EmptyMap
        /\ fault = "run"
        /\ last = Call("generate_distances", 0, 0, NoStats, <<>>, EmptyMap)
        /\ hist = {}
        /\ kmer_seen = {}
        /\ calls = NoCalls
        /\ gd_pc = "start"
        /\ todo = {}
        /\ variant_info_all = <<>>
        /\ geom_mean_var = <<>>
        /\ geom_mean_dep = <<>>
        /\ tmp_dir = "none"
        /\ nmf_calls = {}
        /\ threads = 1
        /\ overflow_checks = FALSE
        /\ RankIdle
        /\ EmitIdle
        /\ NoClusters
        /\ PostIdle

NextFeatures ==
    \/ gd_begin
    \/ GdVariant
    \/ gd_collect

SpecFeatures == InitFeatures /\ [][NextFeatures]_vars

----------------------------------------------------------------------------
(* The feature list and the geometric means: the properties checked *)

\* C6: every tuple of the variant feature list has a depth vector and a
\* frequency vector of the length of the registered samples, and a sample with
\* no observation of the variant holds the pseudo-counted value 1 in both.
C6_Original ==
    \A i \in 1..Len(variant_info_all) :
        LET info == variant_info_all[i]
            abundances_vector == variants[info.tid][info.position][info.var]
        IN  /\ Len(info.depths) = Len(sample_names)
            /\ Len(info.freqs) = Len(sample_names)
            /\ \A s \in 0..(Len(sample_names) - 1) :
                  abundances_vector[s][1] = 0 =>
                      info.freqs[s + 1] = 1 /\ info.depths[s + 1] = 1

\* every value accumulated for sample s was 1
OnlyOnes(s) == geom_mean_var[s].prod = 1 /\ geom_mean_dep[s].prod = 1

\* C7: once the accumulators are converted, a sample for which every
\* accumulated pseudo-counted value was 1 has geometric mean 1 for the variant
\* counts and for the depths (its log sums ended at 0).
C7_Original ==
    gd_pc = "distances" =>
        \A s \in DOMAIN geom_mean_var :
            OnlyOnes(s) => /\ GeomMeanIsOne(geom_mean_var[s])
                           /\ GeomMeanIsOne(geom_mean_dep[s])

----------------------------------------------------------------------------
(* generate_distances: the rank search *)

\* cmp::min(25, n) and cmp::min(4, n)
MaxRankCap == 25
MinRankCap == 4
\* the iteration budgets handed to nmf.py
ExploreIterations == 10
FinalIterations == 30

Min(a, b) == IF a < b THEN a ELSE b

max_rank == Min(MaxRankCap, Len(variant_info_all))
min_rank == Min(MinRankCap, Len(variant_info_all))

\* max_rank - min_rank - 1 in usize
ThreadDivisor == max_rank - min_rank - 1

\* threads / (max_rank - min_rank - 1), then raised to 1; a divisor that wrapped
\* around is above every thread count
in_threads ==
    LET quotient == IF ThreadDivisor < 0 THEN 0 ELSE threads \div ThreadDivisor
    IN  IF quotient < 1 THEN 1 ELSE quotient

\* an f32 that is not a number
NaN == 0 - 1

\* f32 >= and >
Ge(a, b) == a # NaN /\ b # NaN /\ a >= b
Gt(a, b) == a # NaN /\ b # NaN /\ a > b

\* a residual that cannot be parsed is set apart from every number
ParsedOrApart(out) ==
    IF out.kind = "number" THEN out.value ELSE NaN

\* out.trim().parse::<f32>(), with 0. where it fails
ParsedRss(out) ==
    IF out.kind = "number" THEN out.value
    ELSE IF out.kind = "nan" THEN NaN
    ELSE 0

\* every exit status is taken for success
SuccessAlways(es) == TRUE

\* ExitStatus::success
Success(es) == es = 0

\* lines 487-515: the distances are written, the scan is laid out
gd_distances ==
    /\ fault = "run"
    /\ gd_pc = "distances"
    /\ IF ThreadDivisor = 0 \/ (ThreadDivisor < 0 /\ overflow_checks)
       THEN /\ fault' = "panic"
            /\ UNCHANGED <<gd_pc, ranks_rss, pending>>
       ELSE /\ ranks_rss' = VecOf(0, max_rank - min_rank)
            /\ pending' = min_rank..(max_rank - 1)
            /\ gd_pc' = "scan"
            /\ UNCHANGED fault
    /\ UNCHANGED <<coverages, average_genotypes, variances, variants, snps_map,
                   indels_map, contigs, target_names, target_lengths, sample_names,
                   kfrequencies, variant_counts, variant_sums, last, hist, kmer_seen,
                   calls, todo, variant_info_all, geom_mean_var, geom_mean_dep,
                   tmp_dir, nmf_calls, threads, overflow_checks, nmf_out, best_rank,
                   best_rss, predictions, prediction_variants,
                   prediction_variants_all, emitVars, postVars>>

\* the scan has stored the residual of index i
Scanned(i) == gd_pc = "scan" /\ (i + min_rank) \notin pending

\* the residuals stored from the first rank on never rise up to an index, and the
\* residual at that index is above the best before it
RiseSeen ==
    \E i \in DOMAIN ranks_rss :
        /\ i >= 1
        /\ \A j \in 0..i : Scanned(j)
        /\ \A j \in 1..(i - 1) : Ge(ranks_rss[j - 1], ranks_rss[j])
        /\ Gt(ranks_rss[i], ranks_rss[i - 1])

\* the scan with no invocation for the ranks that follow a rise
nmf_explore_withheld(rank) ==
    /\ fault = "run"
    /\ gd_pc = "scan"
    /\ rank \in pending
    /\ pending' = pending \ {rank}
    /\ IF RiseSeen
       THEN UNCHANGED <<nmf_calls, ranks_rss, fault>>
       ELSE /\ nmf_calls' = nmf_calls \cup {[rank |-> rank + 1, exploratory |-> TRUE,
                                             iterations |-> ExploreIterations,
                                             threads |-> in_threads,
                                             exit |-> nmf_out[rank - min_rank].exit]}
            /\ LET result == nmf_out[rank - min_rank]
               IN  IF ~Success(result.exit)
                   THEN /\ fault' = "exit"
                        /\ UNCHANGED ranks_rss
                   ELSE /\ ranks_rss' = [ranks_rss EXCEPT ![rank - min_rank] =
                                                              ParsedRss(result)]
                        /\ UNCHANGED fault
    /\ UNCHANGED <<coverages, average_genotypes, variances, variants, snps_map,
                   indels_map, contigs, target_names, target_lengths, sample_names,
                   kfrequencies, variant_counts, variant_sums, last, hist, kmer_seen,
                   calls, gd_pc, todo, variant_info_all, geom_mean_var,
                   geom_mean_dep, tmp_dir, threads, overflow_checks, nmf_out,
                   best_rank, best_rss, predictions, prediction_variants,
                   prediction_variants_all, emitVars, postVars>>

\* lines 517-560: one item of the parallel scan
nmf_explore(rank) ==
    /\ fault = "run"
    /\ gd_pc = "scan"
    /\ rank \in pending
    /\ pending' = pending \ {rank}
    /\ nmf_calls' = nmf_calls \cup {[rank |-> rank + 1, exploratory |-> TRUE,
                                     iterations |-> ExploreIterations,
                                     threads |-> in_threads,
                                     exit |-> nmf_out[rank - min_rank].exit]}
    /\ LET result == nmf_out[rank - min_rank]
       IN  IF ~Success(result.exit)
           THEN /\ fault' = "exit"
                /\ UNCHANGED ranks_rss
           ELSE /\ ranks_rss' = [ranks_rss EXCEPT ![rank - min_rank] =
                                                      ParsedRss(result)]
                /\ UNCHANGED fault
    /\ UNCHANGED <<coverages, average_genotypes, variances, variants, snps_map,
                   indels_map, contigs, target_names, target_lengths, sample_names,
                   kfrequencies, variant_counts, variant_sums, last, hist, kmer_seen,
                   calls, gd_pc, todo, variant_info_all, geom_mean_var,
                   geom_mean_dep, tmp_dir, threads, overflow_checks, nmf_out,
                   best_rank, best_rss, predictions, prediction_variants,
                   prediction_variants_all, emitVars, postVars>>

\* one pass of the loop of lines 567-577 over ranks_rss, from index rank on
RECURSIVE SelectFrom(_, _, _)
SelectFrom(rss_vec, rank, best) ==
    IF rank >= VecLen(rss_vec) THEN best
    ELSE LET rss == rss_vec[rank]
         IN  IF best.rank = 0 /\ best.rss = 0 /\ rank = 0
             THEN SelectFrom(rss_vec, rank + 1,
                             [rank |-> rank + min_rank + 1, rss |-> rss])
             ELSE IF Ge(best.rss, rss)
             THEN SelectFrom(rss_vec, rank + 1,
                             [rank |-> rank + min_rank + 1, rss |-> rss])
             ELSE IF Gt(rss, best.rss) THEN best
             ELSE SelectFrom(rss_vec, rank + 1, best)

\* the selection turned into a search for the lowest residual
SelectedLowest(rss_vec) ==
    IF VecLen(rss_vec) = 0 THEN [rank |-> 0, rss |-> 0]
    ELSE LET lowest == CHOOSE j \in DOMAIN rss_vec :
                           \A i \in DOMAIN rss_vec : rss_vec[j] <= rss_vec[i]
         IN  [rank |-> lowest + min_rank + 1, rss |-> rss_vec[lowest]]

\* lines 562-577
Selected(rss_vec) == SelectFrom(rss_vec, 0, [rank |-> 0, rss |-> 0])

gd_select ==
    /\ fault = "run"
    /\ gd_pc = "scan"
    /\ pending = {}
    /\ best_rank' = Selected(ranks_rss).rank
    /\ best_rss' = Selected(ranks_rss).rss
    /\ gd_pc' = "final"
    /\ UNCHANGED <<aggVars, todo, variant_info_all, geom_mean_var, geom_mean_dep,
                   tmp_dir, nmf_calls, threads, overflow_checks, nmf_out, pending,
                   ranks_rss, predictions, prediction_variants,
                   prediction_variants_all, emitVars, postVars>>

\* lines 579-613: the run at the selected rank
nmf_final(exit) ==
    /\ fault = "run"
    /\ gd_pc = "final"
    /\ nmf_calls' = nmf_calls \cup {[rank |-> best_rank, exploratory |-> FALSE,
                                     iterations |-> FinalIterations,
                                     threads |-> threads, exit |-> exit]}
    /\ IF ~Success(exit)
       THEN fault' = "exit" /\ UNCHANGED gd_pc
       ELSE gd_pc' = "read" /\ UNCHANGED fault
    /\ UNCHANGED <<coverages, average_genotypes, variances, variants, snps_map,
                   indels_map, contigs, target_names, target_lengths, sample_names,
                   kfrequencies, variant_counts, variant_sums, last, hist, kmer_seen,
                   calls, todo, variant_info_all, geom_mean_var, geom_mean_dep,
                   tmp_dir, rankVars, emitVars, postVars>>

\* predictions[[row, 0]] as i32, predictions[[row, 1]] in tenths
Cluster(row) == row[1]
Prob(row) == row[2]

\* unique_ranks of lines 620-625
unique_ranks(preds) == {Cluster(preds[row]) : row \in DOMAIN preds}

\* the comparison made strict
AboveThresh(prob, unique_count) == prob * unique_count > 10

\* prob >= 1. / unique_ranks.len(), with prob in tenths
AtLeastThresh(prob, unique_count) == prob * unique_count >= 10

\* lines 650-657 and 673-682: the variant of a row entered under a key
VariantEntered(m, key, variant_info) ==
    LET variant_tid == OrInsert(m, key, EmptyMap)[key]
        variant_pos == OrInsert(variant_tid, variant_info.tid, EmptyMap)[variant_info.tid]
        variant == OrInsert(variant_pos, variant_info.position, {})[variant_info.position]
    IN  Put(m, key,
            Put(variant_tid, variant_info.tid,
                Put(variant_pos, variant_info.position,
                    variant \cup {variant_info.var})))

\* the loop of lines 641-691, from row on
RECURSIVE RoutedFrom(_, _, _, _)
RoutedFrom(preds, infos, row, maps) ==
    IF row >= Len(infos) THEN maps
    ELSE IF AtLeastThresh(Prob(preds[row]), Cardinality(unique_ranks(preds)))
    THEN RoutedFrom(preds, infos, row + 1,
                    [maps EXCEPT !.variants =
                        VariantEntered(@, Cluster(preds[row]) + 1, infos[row + 1])])
    ELSE RoutedFrom(preds, infos, row + 1,
                    [maps EXCEPT !.variants_all =
                        VariantEntered(@, 0, infos[row + 1])])

Routed(preds, infos) ==
    RoutedFrom(preds, infos, 0, [variants |-> EmptyMap, variants_all |-> EmptyMap])

\* lines 615-691: the factorization is read, the directory closed, the rows routed
gd_route(preds) ==
    /\ fault = "run"
    /\ gd_pc = "read"
    /\ predictions' = preds
    /\ IF VecLen(preds) < Len(variant_info_all)
       THEN /\ fault' = "panic"
            /\ UNCHANGED <<gd_pc, prediction_variants, prediction_variants_all>>
       ELSE /\ prediction_variants' = Routed(preds, variant_info_all).variants
            /\ prediction_variants_all' = Routed(preds, variant_info_all).variants_all
            /\ gd_pc' = "routed"
            /\ UNCHANGED fault
    /\ tmp_dir' = "closed"
    /\ UNCHANGED <<coverages, average_genotypes, variances, variants, snps_map,
                   indels_map, contigs, target_names, target_lengths, sample_names,
                   kfrequencies, variant_counts, variant_sums, last, hist, kmer_seen,
                   calls, todo, variant_info_all, geom_mean_var, geom_mean_dep,
                   nmf_calls, threads, overflow_checks, nmf_out, pending, ranks_rss,
                   best_rank, best_rss, emitVars, postVars>>

----------------------------------------------------------------------------
(* The rank search: its inputs *)

\* the largest feature list searched
MaxVariants == 26
\* the largest feature list whose scan is interleaved by two pool threads
MaxInterleaved == 8

RankSizes == 2..MaxInterleaved \cup {MaxVariants - 1, MaxVariants}

\* the variants of contig tid, of a reference with n variant positions that
\* alternate between contigs 0 and 1, each seen once in sample 0
RankAbundances(n, tid) ==
    [pos \in {q \in 1..n : q % 2 = tid} |-> (<<"A">> :> <<1, 1>>)]

RECURSIVE Ascending(_)
Ascending(S) ==
    IF S = {} THEN <<>>
    ELSE LET least == CHOOSE x \in S : \A y \in S : x <= y
         IN  <<least>> \o Ascending(S \ {least})

RankStats(n, tid) == Stats(tid, <<1, 2, 3>>, RankAbundances(n, tid), ReadsNone, ReadsNone)

RankMatrix(n) ==
    LET first == AddContigTo(MatrixNew, RankStats(n, 0), MaxSamples, 0, ContigSeq(0),
                             Ascending(DOMAIN RankAbundances(n, 0)))
    IN  AddContigTo(first, RankStats(n, 1), MaxSamples, 0, ContigSeq(1),
                    Ascending(DOMAIN RankAbundances(n, 1)))

\* the feature list of RankMatrix(n), the workers having run in position order
RankFeatures(M, n) ==
    [i \in 1..n |->
        LET abundances_vector == M.variants[i % 2][i][<<"A">>]
        IN  [position |-> i, var |-> <<"A">>, depths |-> DepthsOf(abundances_vector),
             freqs |-> FreqsOf(abundances_vector), tid |-> i % 2]]

RECURSIVE RankAccumulated(_, _, _, _)
RankAccumulated(M, n, i, field) ==
    IF i = 0 THEN AccumulatorsNew(MaxSamples)
    ELSE Accumulated(RankAccumulated(M, n, i - 1, field),
                     M.variants[i % 2][i][<<"A">>], field)

RankMeans(M, n, field) ==
    [s \in 0..(MaxSamples - 1) |-> GeomMean(RankAccumulated(M, n, n, field)[s], n)]

\* what nmf.py answers to the exploratory run of the i-th scanned rank
Number(v) == [exit |-> 0, kind |-> "number", value |-> v]
Junk == [exit |-> 0, kind |-> "junk", value |-> 0]
NotANumber == [exit |-> 0, kind |-> "nan", value |-> 0]
Failed == [exit |-> 1, kind |-> "junk", value |-> 0]

SeriesNames == {"dip", "down", "up", "flat", "tie", "junk", "nan", "nan_first", "fail"}

Answer(series, i) ==
    CASE series = "dip" -> Number(IF i = 0 THEN 5 ELSE IF i = 1 THEN 3
                                  ELSE IF i = 2 THEN 4 ELSE 1)
      [] series = "down" -> Number(40 - i)
      [] series = "up" -> Number(1 + i)
      [] series = "flat" -> Number(3)
      [] series = "tie" -> Number(IF i <= 1 THEN 3 ELSE 5)
      [] series = "junk" -> IF i = 1 THEN Junk ELSE Number(40 - i)
      [] series = "nan" -> IF i = 1 THEN NotANumber ELSE Number(40 - i)
      [] series = "nan_first" -> IF i = 0 THEN NotANumber ELSE Number(40 - i)
      [] series = "fail" -> IF i = 1 THEN Failed ELSE Number(40 - i)

\* the rows (cluster, posterior in tenths, feature) nmf.py may leave behind
PredictionPatterns ==
    {<<<<0, 2, 1>>, <<1, 4, 1>>, <<2, 5, 1>>>>,
     <<<<0, 5, 1>>, <<1, 5, 1>>>>,
     <<<<0, 10, 1>>>>,
     <<<<2, 2, 1>>, <<2, 4, 1>>, <<0, 3, 1>>, <<1, 9, 1>>>>,
     <<<<1, 0, 1>>>>}

Predictions(rows, pattern) ==
    [row \in 0..(rows - 1) |-> pattern[(row % Len(pattern)) + 1]]

InitRank ==
    \E n \in RankSizes, pool \in {1, 2}, checks \in BOOLEAN, series \in SeriesNames :
        /\ n > MaxInterleaved => pool = 1
        /\ MatrixIs(RankMatrix(n))
        /\ sample_names = [i \in 1..MaxSamples |-> SampleName(i - 1)]
        /\ kfrequencies = EmptyMap
        /\ fault = "run"
        /\ last = Call("generate_distances", 0, 0, NoStats, <<>>, EmptyMap)
        /\ hist = {}
        /\ kmer_seen = {}
        /\ calls = NoCalls
        /\ gd_pc = "distances"
        /\ todo = {}
        /\ variant_info_all = RankFeatures(RankMatrix(n), n)
        /\ geom_mean_var = RankMeans(RankMatrix(n), n, 1)
        /\ geom_mean_dep = RankMeans(RankMatrix(n), n, 2)
        /\ tmp_dir = "created"
        /\ nmf_calls = {}
        /\ threads = pool
        /\ overflow_checks = checks
        /\ nmf_out = [i \in 0..(Min(MaxRankCap, n) - Min(MinRankCap, n) - 1) |->
                         Answer(series, i)]
        /\ pending = {}
        /\ ranks_rss = <<>>
        /\ best_rank = 0
        /\ best_rss = 0
        /\ predictions = <<>>
        /\ prediction_variants = EmptyMap
        /\ prediction_variants_all = EmptyMap
        /\ EmitIdle
        /\ NoClusters
        /\ PostIdle

\* a pool of one thread takes the items of the range in order
NmfExplore ==
    \E rank \in pending :
        /\ threads = 1 => \A other \in pending : rank <= other
        /\ nmf_explore(rank)

NmfFinal == \E exit \in {0, 1} : nmf_final(exit)

GdRoute ==
    \E pattern \in PredictionPatterns,
       rows \in {Len(variant_info_all) - 1, Len(variant_info_all)} :
        gd_route(Predictions(rows, pattern))

NextRank ==
    \/ gd_distances
    \/ NmfExplore
    \/ gd_select
    \/ NmfFinal
    \/ GdRoute

SpecRank == InitRank /\ [][NextRank]_vars

----------------------------------------------------------------------------
(* The rank search: the properties checked *)

\* the scan is over and the run goes on
ScanDone == fault = "run" /\ gd_pc \in {"final", "read", "routed"}

\* the ranks handed to nmf.py in exploratory mode
Handed == {c.rank : c \in {d \in nmf_calls : d.exploratory}}

\* C8: with n >= 2 variants in the feature list, the ranks handed to the
\* factorization in exploratory mode are exactly min(4, n)..min(25, n).
C8_Original ==
    (ScanDone /\ Len(variant_info_all) >= 2) =>
        Handed = Min(4, Len(variant_info_all))..Min(25, Len(variant_info_all))

\* the index in ranks_rss of the selected rank
BestIndex == best_rank - min_rank - 1

\* the indices of ranks_rss that hold a number
Numbers == {i \in DOMAIN ranks_rss : ranks_rss[i] # NaN}

\* C9: the selection starts at the first rank, moves to each following rank
\* whose residual is <= the best so far and stops at the first rank whose
\* residual is greater: the selected rank ends the longest run, from the first
\* rank on, of residuals that never rise, and the next residual that is a
\* number is greater -- the first local minimum, whatever comes later.  A
\* series that starts with a residual that is not a number keeps the first rank.
C9_FirstLocalMinimum ==
    (ScanDone /\ VecLen(ranks_rss) > 0) =>
        /\ BestIndex \in DOMAIN ranks_rss
        /\ best_rss = ranks_rss[BestIndex]
        /\ ranks_rss[0] = NaN => BestIndex = 0
        /\ ranks_rss[0] # NaN =>
             /\ BestIndex \in Numbers
             /\ \A a, b \in Numbers :
                    (a < b /\ b <= BestIndex) => ranks_rss[b] <= ranks_rss[a]
             /\ \A i \in Numbers :
                    (i > BestIndex /\ \A x \in Numbers : ~(BestIndex < x /\ x < i))
                        => ranks_rss[i] > ranks_rss[BestIndex]

\* a series fell, rose and later fell below its first local minimum, which was
\* selected
C9_Witness ==
    /\ ScanDone
    /\ VecLen(ranks_rss) > 3
    /\ Numbers = DOMAIN ranks_rss
    /\ BestIndex = 1
    /\ ranks_rss[0] > ranks_rss[1]
    /\ ranks_rss[2] > ranks_rss[1]
    /\ \E i \in DOMAIN ranks_rss : i > 2 /\ ranks_rss[i] < ranks_rss[1]

\* the variant of a row is recorded under a key of a prediction map
Under(m, key, variant_info) ==
    /\ key \in DOMAIN m
    /\ variant_info.tid \in DOMAIN m[key]
    /\ variant_info.position \in DOMAIN m[key][variant_info.tid]
    /\ variant_info.var \in m[key][variant_info.tid][variant_info.position]

UniqueCount == Cardinality(unique_ranks(predictions))

\* C10: with k distinct cluster ids, a row whose posterior p (in tenths) has
\* p/10 >= 1/k is recorded under strain cluster + 1 and nowhere else, and a row
\* with p/10 < 1/k is recorded in the ambiguous bucket 0 and nowhere else; with
\* k = 3 that sends 0.2 to the bucket and 0.4 to the cluster.
C10_RoutedByThreshold ==
    (fault = "run" /\ gd_pc = "routed") =>
        \A row \in 0..(Len(variant_info_all) - 1) :
            LET variant_info == variant_info_all[row + 1]
                strain == Cluster(predictions[row]) + 1
            IN  IF Prob(predictions[row]) * UniqueCount >= 10
                THEN /\ Under(prediction_variants, strain, variant_info)
                     /\ \A key \in DOMAIN prediction_variants \ {strain} :
                            ~Under(prediction_variants, key, variant_info)
                     /\ \A key \in DOMAIN prediction_variants_all :
                            ~Under(prediction_variants_all, key, variant_info)
                ELSE /\ Under(prediction_variants_all, 0, variant_info)
                     /\ \A key \in DOMAIN prediction_variants_all \ {0} :
                            ~Under(prediction_variants_all, key, variant_info)
                     /\ \A key \in DOMAIN prediction_variants :
                            ~Under(prediction_variants, key, variant_info)

\* three clusters were reported, a row of posterior 0.2 went to the bucket and
\* a row of posterior 0.4 to its cluster
C10_Witness ==
    /\ fault = "run"
    /\ gd_pc = "routed"
    /\ UniqueCount = 3
    /\ \E low, high \in 0..(Len(variant_info_all) - 1) :
          /\ Prob(predictions[low]) = 2
          /\ Under(prediction_variants_all, 0, variant_info_all[low + 1])
          /\ Prob(predictions[high]) = 4
          /\ Under(prediction_variants, Cluster(predictions[high]) + 1,
                   variant_info_all[high + 1])
          /\ ~Under(prediction_variants_all, 0, variant_info_all[high + 1])

----------------------------------------------------------------------------
(* generate_distances: the strain sequences *)

\* chunks(60)
LineWidth == 60

\* the key a BTreeMap iteration visits first
FirstKey(S) == CHOOSE k \in S : \A j \in S : j = k \/ StrLess(k, j)

\* the element a HashSet iteration yields first: any of them
FirstOf(hash, pick) ==
    IF hash = {} THEN <<>>
    ELSE IF pick = "least" THEN FirstKey(hash) ELSE LastKey(hash)

\* HashMap::extend: the entries of shared replace those of tid_genotype
Extended(tid_genotype, shared) ==
    [pos \in DOMAIN tid_genotype \cup DOMAIN shared |->
        IF pos \in DOMAIN shared THEN shared[pos] ELSE tid_genotype[pos]]

\* lines 743-751: the genotype of the strain once a base of contig tid is visited
GenotypeAfter(genotype, shared_all, tid, original_contig) ==
    IF /\ Len(original_contig) > 0
       /\ tid \in DOMAIN genotype
       /\ 0 \in DOMAIN shared_all
       /\ tid \in DOMAIN shared_all[0]
    THEN Put(genotype, tid, Extended(genotype[tid], shared_all[0][tid]))
    ELSE genotype

\* contig.as_bytes().chunks(60)
RECURSIVE Chunks(_, _)
Chunks(contig, width) ==
    IF Len(contig) = 0 THEN <<>>
    ELSE IF Len(contig) <= width THEN <<contig>>
    ELSE <<SubSeq(contig, 1, width)>> \o Chunks(SubSeq(contig, width + 1, Len(contig)), width)

\* the call written whole, insertion prefix included
CallTextWhole(max_var) ==
    IF Contains(max_var, "N") THEN <<max_var[1]>> ELSE max_var

\* lines 762-776: what a call adds to the sequence
CallText(max_var) ==
    IF Contains(max_var, "N") THEN <<max_var[1]>>
    ELSE IF Len(max_var) > 1 THEN Tail(max_var)
    ELSE max_var

\* no base is skipped after a call
CallSkipNone(max_var) == 0

\* lines 762-765: the reference bases skipped after a call
CallSkip(max_var) ==
    IF Contains(max_var, "N") THEN Len(max_var) - 1 ELSE 0

\* the loop of lines 735-785 from position pos on, for a contig the genotype holds
RECURSIVE EmitFrom(_, _, _, _, _, _, _)
EmitFrom(original_contig, tid_genotype, pos, skip_n, skip_cnt, out, pick) ==
    IF pos >= Len(original_contig) THEN out
    ELSE IF skip_cnt < skip_n
    THEN EmitFrom(original_contig, tid_genotype, pos + 1, skip_n, skip_cnt + 1, out, pick)
    ELSE IF pos \in DOMAIN tid_genotype
    THEN LET max_var == FirstOf(tid_genotype[pos], pick)
             counted == IF tid_genotype[pos] = {} THEN 0 ELSE 1
             taken == [out EXCEPT !.variations = @ + counted,
                                  !.applied = @ \cup {<<pos, max_var>>}]
         IN  EmitFrom(original_contig, tid_genotype, pos + 1, CallSkip(max_var), 0,
                      [taken EXCEPT !.contig = @ \o CallText(max_var)], pick)
    ELSE EmitFrom(original_contig, tid_genotype, pos + 1, 0, 0,
                  [out EXCEPT !.contig = @ \o <<original_contig[pos + 1]>>], pick)

NothingEmitted == [contig |-> <<>>, variations |-> 0, applied |-> {}]

\* lines 727-785: the sequence of contig tid for a strain whose genotype is given
EmitContig(genotype, tid, original_contig, pick) ==
    IF tid \in DOMAIN genotype
    THEN EmitFrom(original_contig, genotype[tid], 0, 0, 0, NothingEmitted, pick)
    ELSE [NothingEmitted EXCEPT !.contig = original_contig]

\* lines 727-796: the contigs of one strain, visited in the given order, from
\* the i-th on; the genotype carries the shared variants merged on the way
RECURSIVE EmitContigs(_, _, _, _, _, _)
EmitContigs(strain_index, genotype, order, i, pick, out) ==
    IF i > Len(order) THEN [genotype |-> genotype, file |-> out.file,
                            applied |-> out.applied]
    ELSE LET tid == order[i]
             merged == GenotypeAfter(genotype, prediction_variants_all, tid,
                                     contigs[tid])
             emitted == EmitContig(merged, tid, contigs[tid], pick)
             entry == [tid |-> tid,
                       header |-> <<target_names[tid], strain_index,
                                    emitted.variations>>,
                       contig |-> emitted.contig,
                       lines |-> Chunks(emitted.contig, LineWidth)]
         IN  EmitContigs(strain_index, merged, order, i + 1, pick,
                         [file |-> Append(out.file, entry),
                          applied |-> out.applied
                              \cup {<<tid, a[1], a[2]>> : a \in emitted.applied}])

\* the strains the loop of line 714 has not visited
StrainsLeft == DOMAIN prediction_variants \ DOMAIN applied

\* lines 714-798: one strain of prediction_variants
gd_emit(strain_index, order, pick) ==
    /\ fault = "run"
    /\ gd_pc = "routed"
    /\ strain_index \in StrainsLeft
    /\ IF strain_index # 0
       THEN LET done == EmitContigs(strain_index, prediction_variants[strain_index],
                                    order, 1, pick, [file |-> <<>>, applied |-> {}])
            IN  /\ files' = Put(files, strain_index, done.file)
                /\ applied' = Put(applied, strain_index, done.applied)
                /\ prediction_variants' =
                       Put(prediction_variants, strain_index, done.genotype)
       ELSE /\ applied' = Put(applied, strain_index, {})
            /\ UNCHANGED <<files, prediction_variants>>
    /\ UNCHANGED <<aggVars, gd_pc, todo, variant_info_all, geom_mean_var,
                   geom_mean_dep, tmp_dir, nmf_calls, threads, overflow_checks,
                   nmf_out, pending, ranks_rss, best_rank, best_rss, predictions,
                   prediction_variants_all, postVars>>

\* lines 798-806: every strain is written, the call returns
gd_return ==
    /\ fault = "run"
    /\ gd_pc = "routed"
    /\ StrainsLeft = {}
    /\ gd_pc' = "done"
    /\ UNCHANGED <<aggVars, todo, variant_info_all, geom_mean_var, geom_mean_dep,
                   tmp_dir, nmf_calls, rankVars, emitVars, postVars>>

GdEmit ==
    \E strain_index \in StrainsLeft, order \in Orders(DOMAIN contigs),
       pick \in {"least", "greatest"} :
        gd_emit(strain_index, order, pick)

----------------------------------------------------------------------------
(* The strain sequences: their inputs *)

\* position -> the variants seen there, each once in sample 0
Seen(at) == [pos \in DOMAIN at |-> [var \in at[pos] |-> <<1, 1>>]]

\* the variants of contigs 0 (A C G T) and 1 (T T A) of a run
EmitReferences ==
    {<<Seen((1 :> {<<"T">>}) @@ (3 :> {<<"A">>})), Seen(0 :> {<<"G">>})>>,
     <<Seen((0 :> {<<"A", "G", "G">>}) @@ (1 :> {<<"C", "N">>})), Seen(2 :> {<<"N">>})>>,
     <<Seen(1 :> {<<"T">>, <<"G">>}),
       Seen((0 :> {<<"G">>}) @@ (1 :> {<<"T", "N", "N", "N">>}))>>,
     <<Seen((1 :> {<<"T">>}) @@ (2 :> {<<"A">>})), EmptyMap>>,
     <<Seen((2 :> {<<"G", "N", "N">>}) @@ (3 :> {<<"C">>})), Seen(1 :> {<<"C">>})>>}

EmitMatrix(ref) ==
    LET first == AddContigTo(MatrixNew,
                             Stats(0, <<1, 2, 3>>, ref[1], ReadsNone, ReadsNone),
                             MaxSamples, 0, ContigSeq(0), Ascending(DOMAIN ref[1]))
    IN  AddContigTo(first, Stats(1, <<1, 2, 3>>, ref[2], ReadsNone, ReadsNone),
                    MaxSamples, 0, ContigSeq(1), Ascending(DOMAIN ref[2]))

RECURSIVE KeysAscending(_)
KeysAscending(S) ==
    IF S = {} THEN <<>>
    ELSE <<FirstKey(S)>> \o KeysAscending(S \ {FirstKey(S)})

\* the variants of contig tid, by position and key, from the i-th position on
RECURSIVE ContigTasks(_, _, _, _)
ContigTasks(vs, tid, positions, i) ==
    IF i > Len(positions) THEN <<>>
    ELSE LET keys == KeysAscending(DOMAIN vs[tid][positions[i]])
         IN  [j \in 1..Len(keys) |-> <<tid, positions[i], keys[j]>>]
             \o ContigTasks(vs, tid, positions, i + 1)

\* the order the workers took the variants in: contig 1, then contig 0
TasksTaken(vs) ==
    ContigTasks(vs, 1, Ascending(DOMAIN vs[1]), 1)
    \o ContigTasks(vs, 0, Ascending(DOMAIN vs[0]), 1)

FeatureOf(vs, task) ==
    LET abundances_vector == vs[task[1]][task[2]][task[3]]
    IN  [position |-> task[2], var |-> task[3],
         depths |-> DepthsOf(abundances_vector),
         freqs |-> FreqsOf(abundances_vector), tid |-> task[1]]

RECURSIVE AccumulatedOver(_, _, _, _)
AccumulatedOver(vs, tasks, i, field) ==
    IF i = 0 THEN AccumulatorsNew(MaxSamples)
    ELSE Accumulated(AccumulatedOver(vs, tasks, i - 1, field),
                     vs[tasks[i][1]][tasks[i][2]][tasks[i][3]], field)

MeansOver(vs, tasks, field) ==
    [s \in 0..(MaxSamples - 1) |->
        GeomMean(AccumulatedOver(vs, tasks, Len(tasks), field)[s], Len(tasks))]

\* generate_distances has run the factorization at the selected rank for a
\* feature list of two to four variants (the scan is empty, the rank is 0)
InitEmit ==
    \E ref \in EmitReferences :
        LET M == EmitMatrix(ref)
            tasks == TasksTaken(M.variants)
        IN  /\ MatrixIs(M)
            /\ sample_names = [i \in 1..MaxSamples |-> SampleName(i - 1)]
            /\ kfrequencies = EmptyMap
            /\ fault = "run"
            /\ last = Call("generate_distances", 0, 0, NoStats, <<>>, EmptyMap)
            /\ hist = {}
            /\ kmer_seen = {}
            /\ calls = NoCalls
            /\ gd_pc = "read"
            /\ todo = {}
            /\ variant_info_all = [i \in 1..Len(tasks) |-> FeatureOf(M.variants, tasks[i])]
            /\ geom_mean_var = MeansOver(M.variants, tasks, 1)
            /\ geom_mean_dep = MeansOver(M.variants, tasks, 2)
            /\ tmp_dir = "created"
            /\ nmf_calls = {[rank |-> 0, exploratory |-> FALSE,
                             iterations |-> FinalIterations, threads |-> 1,
                             exit |-> 0]}
            /\ threads = 1
            /\ overflow_checks = FALSE
            /\ nmf_out = <<>>
            /\ pending = {}
            /\ ranks_rss = <<>>
            /\ best_rank = 0
            /\ best_rss = 0
            /\ predictions = <<>>
            /\ prediction_variants = EmptyMap
            /\ prediction_variants_all = EmptyMap
            /\ EmitIdle
            /\ NoClusters
            /\ PostIdle

NextEmit ==
    \/ GdRoute
    \/ GdEmit
    \/ gd_return

SpecEmit == InitEmit /\ [][NextEmit]_vars

----------------------------------------------------------------------------
(* The strain sequences: the properties checked *)

\* the variants (tid, position, variant) of the shared ambiguous bucket
Ambiguous ==
    IF 0 \notin DOMAIN prediction_variants_all THEN {}
    ELSE LET shared == prediction_variants_all[0]
         IN  UNION {UNION {{<<tid, pos, var>> : var \in shared[tid][pos]} :
                              pos \in DOMAIN shared[tid]} : tid \in DOMAIN shared}

\* the variant lies on a base of its contig, no other variant of the feature
\* list lies at its position and no call of its contig skips bases
Unobstructed(v) ==
    /\ v[2] < Len(contigs[v[1]])
    /\ \A i \in 1..Len(variant_info_all) :
          variant_info_all[i].tid = v[1] =>
              /\ ~Contains(variant_info_all[i].var, "N")
              /\ variant_info_all[i].position = v[2] => variant_info_all[i].var = v[3]

\* C11: every variant of the shared ambiguous bucket is applied to the
\* sequence written for every strain, on whichever contig it lies, a contig
\* without exclusively assigned variant of the strain included (stated for the
\* variants nothing else stands in the way of).
C11_Original ==
    \A strain_index \in DOMAIN files :
        \A v \in Ambiguous : Unobstructed(v) => v \in applied[strain_index]

----------------------------------------------------------------------------
(* generate_genotypes *)

\* the leaves of a dendrogram of n_1 steps are 0..n_1; step i forms label n_1 + 1 + i
StepOf(label, n_1) == label - n_1 - 1

\* lines 838-850: dendrogram index -> position -> (variant, cluster id, tid)
DendroIds(cl) ==
    LET entries == UNION {UNION {{[tid |-> tid, position |-> pos, variant |-> var,
                                   cluster |-> cl[tid][pos][var]] :
                                      var \in DOMAIN cl[tid][pos]} :
                                  pos \in DOMAIN cl[tid]} : tid \in DOMAIN cl}
    IN  [index \in {e.cluster[2] : e \in entries} |->
            [pos \in {e.position : e \in {x \in entries : x.cluster[2] = index}} |->
                LET e == CHOOSE x \in entries :
                             x.cluster[2] = index /\ x.position = pos
                IN  <<e.variant, e.cluster[1], e.tid>>]]

\* the least of the labels is taken
LeastLabel(labels) ==
    CHOOSE m \in {labels[i] : i \in DOMAIN labels} :
        \A i \in DOMAIN labels : m <= labels[i]

\* iter().max()
MaxLabel(labels) ==
    CHOOSE m \in {labels[i] : i \in DOMAIN labels} :
        \A i \in DOMAIN labels : labels[i] <= m

\* Vec::remove of the first element equal to label
Removed(labels, label) ==
    LET at == CHOOSE i \in DOMAIN labels :
                  labels[i] = label /\ \A j \in 1..(i - 1) : labels[j] # label
    IN  SubSeq(labels, 1, at - 1) \o SubSeq(labels, at + 1, Len(labels))

\* the expanded label is left in the list
RootsUnremoved(labels, dendro) ==
    IF Len(labels) = 0
    THEN <<dendro[Len(dendro)].cluster1, dendro[Len(dendro)].cluster2>>
    ELSE LET step_i == dendro[StepOf(MaxLabel(labels), Len(dendro)) + 1]
         IN  labels \o <<step_i.cluster1, step_i.cluster2>>

\* lines 864-878: one pass of the loop that finds the root labels
RootsExpanded(labels, dendro) ==
    IF Len(labels) = 0
    THEN <<dendro[Len(dendro)].cluster1, dendro[Len(dendro)].cluster2>>
    ELSE LET cluster_to_check == MaxLabel(labels)
             step_i == dendro[StepOf(cluster_to_check, Len(dendro)) + 1]
         IN  Removed(labels \o <<step_i.cluster1, step_i.cluster2>>, cluster_to_check)

\* cluster_to_check - n_1 - 1 is not the index of a step
ExpansionPanics(labels, dendro) ==
    /\ Len(labels) > 0
    /\ StepOf(MaxLabel(labels), Len(dendro)) \notin 0..(Len(dendro) - 1)

\* lines 834-861: the dendrogram indices are collected
gg_begin ==
    /\ fault = "run"
    /\ gg_pc = "start"
    /\ IF Len(dendrogram) > 0
       THEN /\ dendro_ids' = DendroIds(clusters)
            /\ gg_pc' = "roots"
       ELSE /\ gg_pc' = "done"
            /\ UNCHANGED dendro_ids
    /\ cluster_root_labels' = <<>>
    /\ haplotypes_vec' = <<>>
    /\ UNCHANGED <<aggVars, gd_pc, todo, variant_info_all, geom_mean_var,
                   geom_mean_dep, tmp_dir, nmf_calls, rankVars, emitVars, statVars, seedVars, parVars,
                   dendrogram, clusters, clusters_mean>>

\* lines 862-882: the root labels of the k clusters
gg_roots ==
    /\ fault = "run"
    /\ gg_pc = "roots"
    /\ LET k == Cardinality(DOMAIN clusters_mean)
       IN  IF k = 1
           THEN /\ cluster_root_labels' = <<Len(dendrogram) + Len(dendrogram)>>
                /\ gg_pc' = "haplotypes"
                /\ UNCHANGED fault
           ELSE IF Len(cluster_root_labels) >= k
           THEN /\ gg_pc' = "haplotypes"
                /\ UNCHANGED <<cluster_root_labels, fault>>
           ELSE IF ExpansionPanics(cluster_root_labels, dendrogram)
           THEN /\ fault' = "panic"
                /\ UNCHANGED <<cluster_root_labels, gg_pc>>
           ELSE /\ cluster_root_labels' = RootsExpanded(cluster_root_labels, dendrogram)
                /\ UNCHANGED <<gg_pc, fault>>
    /\ UNCHANGED <<coverages, average_genotypes, variances, variants, snps_map,
                   indels_map, contigs, target_names, target_lengths, sample_names,
                   kfrequencies, variant_counts, variant_sums, last, hist, kmer_seen,
                   calls, gd_pc, todo, variant_info_all, geom_mean_var, geom_mean_dep,
                   tmp_dir, nmf_calls, rankVars, emitVars, statVars, seedVars, parVars, dendrogram,
                   clusters, clusters_mean, dendro_ids, haplotypes_vec>>

\* add_variants_per_genome: the leaves below the step with this label
RECURSIVE LeavesBelow(_, _)
LeavesBelow(label, dendro) ==
    IF label <= Len(dendro) THEN {label}
    ELSE LET step == dendro[StepOf(label, Len(dendro)) + 1]
         IN  LeavesBelow(step.cluster1, dendro) \cup LeavesBelow(step.cluster2, dendro)

\* lines 887-900: the haplotype of a root that is a step of the dendrogram
HaplotypeOfStep(cluster_root, index, dendro) ==
    LET cluster_root_id == StepOf(cluster_root, Len(dendro))
    IN  [root_cluster_id |-> cluster_root_id,
         variant_indices |-> LeavesBelow(cluster_root, dendro),
         node_size |-> dendro[cluster_root_id + 1].size,
         haplotype_index |-> index]

\* lines 924-931: the haplotype of a root that is a leaf
HaplotypeOfLeaf(cluster_root, index) ==
    [root_cluster_id |-> cluster_root,
     variant_indices |-> {cluster_root},
     node_size |-> 1,
     haplotype_index |-> index]

\* lines 905-922: the variants of the leaf are written back to clusters
ClustersWith(cl, variant_pos, cluster_root) ==
    LET tids == DOMAIN cl \cup {variant_pos[pos][3] : pos \in DOMAIN variant_pos}
        Mine(tid) == {pos \in DOMAIN variant_pos : variant_pos[pos][3] = tid}
        Had(tid) == IF tid \in DOMAIN cl THEN cl[tid] ELSE EmptyMap
    IN  [tid \in tids |->
            [pos \in DOMAIN Had(tid) \cup Mine(tid) |->
                IF pos \in Mine(tid)
                THEN Put(IF pos \in DOMAIN Had(tid) THEN Had(tid)[pos] ELSE EmptyMap,
                         variant_pos[pos][1], <<variant_pos[pos][2], cluster_root>>)
                ELSE Had(tid)[pos]]]

\* lines 886-935: the haplotype of the next root label
gg_haplotype ==
    /\ fault = "run"
    /\ gg_pc = "haplotypes"
    /\ LET index == Len(haplotypes_vec)
       IN  IF index >= Len(cluster_root_labels)
           THEN /\ gg_pc' = "done"
                /\ UNCHANGED <<haplotypes_vec, clusters, fault>>
           ELSE LET cluster_root == cluster_root_labels[index + 1]
                IN  IF cluster_root > Len(dendrogram)
                    THEN /\ haplotypes_vec' = Append(haplotypes_vec,
                                HaplotypeOfStep(cluster_root, index, dendrogram))
                         /\ UNCHANGED <<gg_pc, clusters, fault>>
                    ELSE IF cluster_root \notin DOMAIN dendro_ids
                    THEN /\ fault' = "panic"
                         /\ UNCHANGED <<gg_pc, clusters, haplotypes_vec>>
                    ELSE /\ clusters' = ClustersWith(clusters, dendro_ids[cluster_root],
                                                     cluster_root)
                         /\ haplotypes_vec' = Append(haplotypes_vec,
                                HaplotypeOfLeaf(cluster_root, index))
                         /\ UNCHANGED <<gg_pc, fault>>
    /\ UNCHANGED <<coverages, average_genotypes, variances, variants, snps_map,
                   indels_map, contigs, target_names, target_lengths, sample_names,
                   kfrequencies, variant_counts, variant_sums, last, hist, kmer_seen,
                   calls, gd_pc, todo, variant_info_all, geom_mean_var, geom_mean_dep,
                   tmp_dir, nmf_calls, rankVars, emitVars, statVars, seedVars, parVars, dendrogram,
                   clusters_mean, dendro_ids, cluster_root_labels>>

----------------------------------------------------------------------------
(* generate_genotypes: the dendrograms and clusters of the model *)

\* leaves of the largest dendrogram
MaxLeaves == 4

\* the dendrograms that merge the active labels, the next step taking label next
RECURSIVE Merges(_, _, _)
Merges(active, size, next) ==
    IF Cardinality(active) <= 1 THEN {<<>>}
    ELSE UNION {LET step == [cluster1 |-> p[1], cluster2 |-> p[2],
                             size |-> size[p[1]] + size[p[2]]]
                IN  {<<step>> \o rest :
                        rest \in Merges((active \ {p[1], p[2]}) \cup {next},
                                        Put(size, next, step.size), next + 1)} :
                    p \in {q \in active \X active : q[1] < q[2]}}

Dendrograms(n) == Merges(0..(n - 1), [leaf \in 0..(n - 1) |-> 1], n)

\* one variant for each leaf, spread over the contigs
LeafClusters(n) ==
    [tid \in {leaf % NumContigs : leaf \in 0..(n - 1)} |->
        [pos \in {leaf \in 0..(n - 1) : leaf % NumContigs = tid} |->
            (<<"A">> :> <<pos % 2, pos>>)]]

InitGenotypes ==
    \E n \in 1..MaxLeaves :
        \E dendro \in Dendrograms(n), k \in 0..(MaxLeaves + 1) :
            /\ MatrixIs(MatrixNew)
            /\ sample_names = <<>>
            /\ kfrequencies = EmptyMap
            /\ fault = "run"
            /\ last = Call("generate_genotypes", 0, 0, NoStats, <<>>, EmptyMap)
            /\ hist = {}
            /\ kmer_seen = {}
            /\ calls = NoCalls
            /\ GdIdle
            /\ threads = 1
            /\ overflow_checks = FALSE
            /\ RankIdle
            /\ EmitIdle
            /\ StatIdle
            /\ ParIdle
            /\ SeedIdle
            /\ dendrogram = dendro
            /\ clusters = LeafClusters(n)
            /\ clusters_mean = [c \in 0..(k - 1) |-> 0]
            /\ gg_pc = "start"
            /\ dendro_ids = EmptyMap
            /\ cluster_root_labels = <<>>
            /\ haplotypes_vec = <<>>

NextGenotypes ==
    \/ gg_begin
    \/ gg_roots
    \/ gg_haplotype

SpecGenotypes == InitGenotypes /\ [][NextGenotypes]_vars

----------------------------------------------------------------------------
(* generate_genotypes: the properties checked *)

\* leaves of the dendrogram in the clusters field
LeafSet == 0..Len(dendrogram)

LeafSetsOf(haps) == [i \in DOMAIN haps |-> haps[i].variant_indices]

\* the haplotypes of the k root labels are all built
HaplotypesBuilt ==
    /\ fault = "run"
    /\ gg_pc = "done"
    /\ Len(dendrogram) > 0
    /\ Cardinality(DOMAIN clusters_mean) \in 1..(Len(dendrogram) + 1)

\* C12: once generate_genotypes has built the haplotypes of the k root labels of a
\* dendrogram over n leaves, 1 <= k <= n, there are k haplotypes, their sets of leaf
\* indices are pairwise disjoint, and the union of the sets is the leaf set 0..n-1
C12_HaplotypesPartitionLeaves ==
    HaplotypesBuilt =>
        LET sets == LeafSetsOf(haplotypes_vec)
        IN  /\ Len(haplotypes_vec) = Cardinality(DOMAIN clusters_mean)
            /\ \A i, j \in DOMAIN sets : i # j => sets[i] \cap sets[j] = {}
            /\ UNION {sets[i] : i \in DOMAIN sets} = LeafSet

\* three haplotypes over four leaves, one of a step and two of single leaves
C12_Witness ==
    /\ HaplotypesBuilt
    /\ Len(dendrogram) = 3
    /\ Len(haplotypes_vec) = 3
    /\ \E i \in DOMAIN haplotypes_vec : Cardinality(haplotypes_vec[i].variant_indices) = 2
    /\ \E i \in DOMAIN haplotypes_vec : haplotypes_vec[i].node_size = 1

----------------------------------------------------------------------------
(* generate_distances: from the distances to the strain files *)

NextRun ==
    \/ gd_distances
    \/ NmfExplore
    \/ gd_select
    \/ NmfFinal
    \/ GdRoute
    \/ GdEmit
    \/ gd_return

SpecRun == InitRank /\ [][NextRun]_vars

\* the invocations of nmf.py that exited with a nonzero status
FailedCalls == {c \in nmf_calls : c.exit # 0}

\* C13: when an invocation of nmf.py, exploratory or final, exits with a nonzero
\* status, the process exits with a failure status and nothing later happens: after
\* an exploratory failure no rank is selected and nmf.py is not run in final mode,
\* after either failure the factorization is not read, nothing is routed and no
\* strain file is written.
C13_NonzeroExitIsFatal ==
    FailedCalls # {} =>
        /\ fault = "exit"
        /\ Cardinality(FailedCalls) = 1
        /\ gd_pc \in {"scan", "final"}
        /\ predictions = <<>>
        /\ prediction_variants = EmptyMap
        /\ prediction_variants_all = EmptyMap
        /\ files = EmptyMap
        /\ (\E c \in FailedCalls : c.exploratory) =>
               /\ gd_pc = "scan"
               /\ best_rank = 0
               /\ \A c \in nmf_calls : c.exploratory

\* an exploratory invocation failed while a rank was still to be scanned
C13_Witness ==
    /\ fault = "exit"
    /\ \E c \in FailedCalls : c.exploratory
    /\ pending # {}
    /\ \E c \in nmf_calls : c.exit = 0

\* C14: an exploratory invocation that exits with status 0 and prints what is not
\* a number does not end the run: its rank holds the residual 0 in ranks_rss, and
\* the selection treats that 0 as a residual (here it is below every residual before
\* it, so the selection moves to its rank).
C14_UnparsableIsZero ==
    ScanDone =>
        \A i \in DOMAIN ranks_rss :
            (nmf_out[i].exit = 0 /\ nmf_out[i].kind = "junk") =>
                /\ ranks_rss[i] = 0
                /\ (\A j \in 0..(i - 1) : ranks_rss[j] # NaN /\ ranks_rss[j] > 0)
                       => best_rank >= i + min_rank + 1

\* the run went on to its end and the selected rank is the one that printed junk
C14_Witness ==
    /\ fault = "run"
    /\ gd_pc = "routed"
    /\ BestIndex \in DOMAIN nmf_out
    /\ nmf_out[BestIndex].kind = "junk"
    /\ best_rss = 0
    /\ \E c \in nmf_calls : ~c.exploratory /\ c.rank = best_rank

\* C15: when the workers have joined and the feature list holds fewer than 2
\* variants, generate_distances returns: nmf.py is never invoked, no temporary
\* directory is created and no strain file is written.
C15_TooFewVariants ==
    (gd_pc \notin {"idle", "start", "build"} /\ Len(variant_info_all) < 2) =>
        /\ gd_pc = "done"
        /\ nmf_calls = {}
        /\ tmp_dir = "none"
        /\ files = EmptyMap

\* the call returned with exactly one variant in the feature list
C15_Witness ==
    /\ gd_pc = "done"
    /\ Len(variant_info_all) = 1
    /\ fault = "run"

----------------------------------------------------------------------------
(* print_variant_stats *)

\* a file is the lines ended by a newline and the fields of the line being written;
\* a field is the pieces of text between two tabs
FileCreated == [created |-> TRUE, lines |-> <<>>, open |-> <<>>]

Label(text) == [kind |-> "label", of |-> <<text>>]
Name(text) == [kind |-> "name", of |-> text]
Value(x) == [kind |-> "value", of |-> x]

\* write!(file, "a\tb"): the first field goes on after what the line ends with
Write(file, fields) ==
    [file EXCEPT !.open =
        IF file.open = <<>> THEN fields
        ELSE SubSeq(file.open, 1, Len(file.open) - 1)
                 \o <<file.open[Len(file.open)] \o Head(fields)>> \o Tail(fields)]

\* write!(file, "\ta\tb"): the text starts with a tab
WriteTabbed(file, fields) ==
    [file EXCEPT !.open = (IF file.open = <<>> THEN <<<<>>>> ELSE file.open) \o fields]

\* writeln!(file, "\ta\tb"): the text, then the end of the line
WritelnTabbed(file, fields) ==
    LET written == WriteTabbed(file, fields)
    IN  [written EXCEPT !.lines = Append(written.lines, written.open), !.open = <<>>]

\* write!(file, "\n")
Newline(file) == [file EXCEPT !.lines = Append(file.lines, file.open), !.open = <<>>]

\* the lines of the file, the last one ended or not
Lines(file) == file.lines \o (IF file.open = <<>> THEN <<>> ELSE <<file.open>>)

RECURSIVE Gcd(_, _)
Gcd(a, b) == IF b = 0 THEN a ELSE Gcd(b, a % b)

Abs(a) == IF a < 0 THEN 0 - a ELSE a

\* the quotient in lowest terms
Lowest(a, b) ==
    LET g == Gcd(Abs(a), Abs(b))
    IN  IF g = 0 THEN Frac(a, b) ELSE Frac(a \div g, b \div g)

FracAdd(p, q) == Lowest(p[1] * q[2] + q[1] * p[2], p[2] * q[2])
FracSub(p, q) == Lowest(p[1] * q[2] - q[1] * p[2], p[2] * q[2])
FracMul(p, q) == Lowest(p[1] * q[1], p[2] * q[2])
FracOver(p, n) == Lowest(p[1], p[2] * n)
\* powf(1./2.), kept as the square root of its argument
Sqrt(p) == <<"sqrt", p[1], p[2]>>

\* iter().sum() of a row, from index i on
RECURSIVE SumFrom(_, _)
SumFrom(row, i) ==
    IF i >= VecLen(row) THEN ZeroF ELSE FracAdd(row[i], SumFrom(row, i + 1))

Mean(row, n) == FracOver(SumFrom(row, 0), n)

\* the sum of the squared distances to the mean, over n, to the power 1/2
StdDev(row, n) ==
    LET squares == [i \in DOMAIN row |->
                       FracMul(FracSub(row[i], Mean(row, n)),
                               FracSub(row[i], Mean(row, n)))]
    IN  Sqrt(FracOver(SumFrom(squares, 0), n))

\* lines 1001-1036: the six values of a sample on a contig
SampleFields(counts, sums, lengths, tid, sample_idx) ==
    LET total_variants == counts[sample_idx][tid]
        sample_sums == sums[sample_idx][tid]
        n == VecLen(sample_sums[1])
    IN  IF total_variants > 0
        THEN <<<<Value(Frac(total_variants * 10000, lengths[tid]))>>,
               <<Value(Frac(total_variants, 1))>>,
               <<Value(Mean(sample_sums[2], n))>>,
               <<Value(StdDev(sample_sums[2], n))>>,
               <<Value(Mean(sample_sums[0], n))>>,
               <<Value(StdDev(sample_sums[0], n))>>>>
        ELSE [i \in 1..6 |-> <<Value(ZeroF)>>]

\* variant_counts[&sample_idx][tid] or variant_sums[&sample_idx][tid] is absent
StatsMissing(counts, sums, tid, sample_idx) ==
    \/ sample_idx \notin DOMAIN counts
    \/ tid \notin DOMAIN counts[sample_idx]
    \/ /\ counts[sample_idx][tid] > 0
       /\ (sample_idx \notin DOMAIN sums \/ tid \notin DOMAIN sums[sample_idx])

\* lines 989-996: the header
HeaderWritten(file, names) ==
    LET titled == Write(file, <<<<Label("contigName")>>, <<Label("contigLen")>>>>)
        Columns(i) == [c \in 1..6 |->
                          <<Name(names[i]),
                            Label(<<".subsPer10kb", ".variants", ".meanRefAbd",
                                    ".refStdDev", ".meanVarAbd", ".varStdDev">>[c])>>]
        Sampled[i \in 0..Len(names)] ==
            IF i = 0 THEN titled ELSE WriteTabbed(Sampled[i - 1], Columns(i))
    IN  Newline(Sampled[Len(names)])

\* lines 1000-1037: the samples of a contig, from sample_idx on
RECURSIVE SamplesWritten(_, _, _, _)
SamplesWritten(out, M, tid, sample_idx) ==
    IF sample_idx >= Len(M.sample_names) THEN out
    ELSE IF StatsMissing(M.variant_counts, M.variant_sums, tid, sample_idx)
    THEN [out EXCEPT !.panicked = TRUE]
    ELSE SamplesWritten(
             [out EXCEPT !.file =
                 WritelnTabbed(@, SampleFields(M.variant_counts, M.variant_sums,
                                               M.target_lengths, tid, sample_idx))],
             M, tid, sample_idx + 1)

\* lines 997-1038: the contigs of target_names in the order of the iteration
RECURSIVE ContigsWritten(_, _, _, _)
ContigsWritten(out, M, order, i) ==
    IF i > Len(order) \/ out.panicked THEN out
    ELSE LET tid == order[i]
             named == Write(out.file, <<<<Name(M.target_names[tid])>>,
                                        <<Value(Frac(M.target_lengths[tid], 1))>>>>)
         IN  ContigsWritten(SamplesWritten([out EXCEPT !.file = named], M, tid, 0),
                            M, order, i + 1)

\* the fields of the matrix that print_variant_stats reads
StatsRead ==
    [sample_names |-> sample_names, target_names |-> target_names,
     target_lengths |-> target_lengths, variant_counts |-> variant_counts,
     variant_sums |-> variant_sums]

\* lines 968-1040
print_variant_stats(created, order) ==
    /\ fault = "run"
    /\ ~tsv.created
    /\ IF ~created
       THEN /\ fault' = "exit"
            /\ UNCHANGED tsv
       ELSE LET out == ContigsWritten(
                           [file |-> HeaderWritten(FileCreated, sample_names),
                            panicked |-> FALSE],
                           StatsRead, order, 1)
            IN  /\ tsv' = out.file
                /\ fault' = IF out.panicked THEN "panic" ELSE "run"
    /\ last' = Call("print_variant_stats", 0, 0, NoStats, order, EmptyMap)
    /\ UNCHANGED <<coverages, average_genotypes, variances, variants, snps_map,
                   indels_map, contigs, target_names, target_lengths, sample_names,
                   kfrequencies, variant_counts, variant_sums, hist, kmer_seen, calls,
                   gd_pc, todo, variant_info_all, geom_mean_var, geom_mean_dep,
                   tmp_dir, nmf_calls, rankVars, emitVars, hapVars, seedVars, parVars>>

\* a HashMap is iterated in any order
Orderings(S) ==
    {order \in [1..Cardinality(S) -> S] :
        \A i, j \in 1..Cardinality(S) : i # j => order[i] # order[j]}

PrintVariantStats ==
    \E created \in BOOLEAN, order \in Orderings(DOMAIN target_names) :
        print_variant_stats(created, order)

\* what add_contig is handed for a sample and a contig, if it is called at all
StatsChoices == {"absent", "none", "one", "two"}

StatsVariants(choice) ==
    IF choice = "none" THEN EmptyMap
    ELSE IF choice = "one" THEN (10 :> (<<"A">> :> <<5, 10>>))
    ELSE (10 :> (<<"A">> :> <<5, 10>>))
         @@ (12 :> ((<<"C">> :> <<3, 9>>) @@ (<<"T">> :> <<2, 9>>)))

\* the matrix after the add_contig calls of the cells, sample by sample
RECURSIVE StatsMatrix(_, _, _, _)
StatsMatrix(M, cells, samples, i) ==
    IF i >= samples * NumContigs THEN M
    ELSE LET sample_idx == i \div NumContigs
             tid == i % NumContigs
             choice == cells[i]
             va == StatsVariants(choice)
         IN  IF choice = "absent" THEN StatsMatrix(M, cells, samples, i + 1)
             ELSE StatsMatrix(
                      AddContigTo(M, Stats(tid, <<1, 2, 3>>, va, ReadsNone, ReadsNone),
                                  samples, sample_idx, ContigSeq(tid),
                                  Ascending(DOMAIN va)),
                      cells, samples, i + 1)

\* a sample sees every contig or none; all samples see the same number of
\* variant positions on a contig
StatsCells(samples) ==
    {cells \in [0..(samples * NumContigs - 1) -> StatsChoices] :
        \A i, j \in DOMAIN cells :
            (i % NumContigs = j % NumContigs
             /\ cells[i] \notin {"absent", "none"} /\ cells[j] \notin {"absent", "none"})
                => cells[i] = cells[j]}

InitStats ==
    \E samples \in 0..MaxSamples :
        \E cells \in StatsCells(samples) :
            /\ MatrixIs(StatsMatrix(MatrixNew, cells, samples, 0))
            /\ sample_names = [i \in 1..samples |-> SampleName(i - 1)]
            /\ kfrequencies = EmptyMap
            /\ fault = "run"
            /\ last = Call("add_contig", 0, 0, NoStats, <<>>, EmptyMap)
            /\ hist = {}
            /\ kmer_seen = {}
            /\ calls = NoCalls
            /\ GdIdle
            /\ threads = 1
            /\ overflow_checks = FALSE
            /\ RankIdle
            /\ EmitIdle
            /\ NoClusters
            /\ PostIdle

NextStats == PrintVariantStats

SpecStats == InitStats /\ [][NextStats]_vars

\* the file is written to its end
StatsPrinted == tsv.created /\ fault = "run"

\* C16: the file print_variant_stats has written holds one header line and then
\* exactly one line for each contig of target_names; the line of a contig holds the
\* name and the length of the contig and then six values for each registered sample,
\* whatever the number of samples.
C16_Original ==
    StatsPrinted =>
        LET rows == Lines(tsv)
        IN  /\ Len(rows) = 1 + Cardinality(DOMAIN target_names)
            /\ Len(rows[1]) = 2 + 6 * Len(sample_names)
            /\ \A r \in 2..Len(rows) :
                  /\ Len(rows[r]) = 2 + 6 * Len(sample_names)
                  /\ Len(rows[r][1]) = 1
                  /\ rows[r][1][1].kind = "name"
                  /\ \E tid \in DOMAIN target_names :
                        rows[r][1][1].of = target_names[tid]

----------------------------------------------------------------------------
(* The walk over the reference: the properties checked *)

\* the calls the walk of a strain took on a contig
AppliedOn(strain, tid) == {<<a[2], a[3]>> : a \in {x \in applied[strain] : x[1] = tid}}

\* the position lies in the bases skipped after an ambiguous call
Covered(strain, tid, pos) ==
    \E a \in AppliedOn(strain, tid) :
        Contains(a[2], "N") /\ a[1] < pos /\ pos <= a[1] + Len(a[2]) - 1

\* the haplotype of the strain has a call at the position
HasCall(strain, tid, pos) ==
    /\ tid \in DOMAIN prediction_variants[strain]
    /\ pos \in DOMAIN prediction_variants[strain][tid]

\* what the claim has the walk emit at a position
Piece(strain, tid, pos) ==
    IF Covered(strain, tid, pos) THEN <<>>
    ELSE IF HasCall(strain, tid, pos)
    THEN LET call == (CHOOSE a \in AppliedOn(strain, tid) : a[1] = pos)[2]
         IN  IF Contains(call, "N") /\ Len(call) > 1 THEN <<call[1]>>
             ELSE IF Len(call) > 1 THEN SubSeq(call, 2, Len(call))
             ELSE call
    ELSE <<contigs[tid][pos + 1]>>

RECURSIVE Joined(_, _, _)
Joined(strain, tid, pos) ==
    IF pos >= Len(contigs[tid]) THEN <<>>
    ELSE Piece(strain, tid, pos) \o Joined(strain, tid, pos + 1)

\* C17: the sequence written for a contig of a strain is the walk over the
\* reference, position by position: after an ambiguous call (one that holds N) of
\* several bases, its first base and nothing for the len-1 positions that follow; at
\* a call of several bases with no N, the call without its first base; at any other
\* call, the call; at a position without a call, the reference base.  Exactly one
\* call of the haplotype is taken at every position that has calls and is not
\* skipped, and when every call taken on a contig is a single base the sequence is
\* as long as the reference.
C17_WalkOverReference ==
    \A strain \in DOMAIN files :
        \A i \in DOMAIN files[strain] :
            LET tid == files[strain][i].tid
                taken == AppliedOn(strain, tid)
            IN  /\ \A pos \in 0..(Len(contigs[tid]) - 1) :
                      IF Covered(strain, tid, pos) \/ ~HasCall(strain, tid, pos)
                      THEN \A a \in taken : a[1] # pos
                      ELSE /\ Cardinality({a \in taken : a[1] = pos}) = 1
                           /\ \A a \in taken :
                                 a[1] = pos =>
                                     a[2] \in prediction_variants[strain][tid][pos]
                /\ files[strain][i].contig = Joined(strain, tid, 0)
                /\ (\A a \in taken : Len(a[2]) = 1) =>
                       Len(files[strain][i].contig) = Len(contigs[tid])

\* strains were written with an ambiguous call of several bases, with an insertion
\* and with a single-base call taken, and a base of the reference was skipped
C17_Witness ==
    /\ \E strain \in DOMAIN files : \E a \in applied[strain] :
          Contains(a[3], "N") /\ Len(a[3]) > 1
    /\ \E strain \in DOMAIN files : \E a \in applied[strain] :
          ~Contains(a[3], "N") /\ Len(a[3]) > 1
    /\ \E strain \in DOMAIN files : \E a \in applied[strain] : Len(a[3]) = 1
    /\ \E strain \in DOMAIN files : \E tid \in DOMAIN contigs :
          \E pos \in 0..(Len(contigs[tid]) - 1) : Covered(strain, tid, pos)

----------------------------------------------------------------------------
(* factorization/seeding.rs: f32 values *)

\* an f32 is a quotient n / d in lowest terms with d > 0, the negative zero, an
\* infinity or a NaN
Fin(n, d) ==
    LET g == Gcd(Abs(n), Abs(d))
    IN  [k |-> "fin", n |-> n \div g, d |-> d \div g]
PZero == [k |-> "fin", n |-> 0, d |-> 1]
NZero == [k |-> "nzero", n |-> 0, d |-> 1]
FInf == [k |-> "pinf", n |-> 0, d |-> 1]
FNegInf == [k |-> "ninf", n |-> 0, d |-> 1]
FNaN == [k |-> "nan", n |-> 0, d |-> 1]
One == Fin(1, 1)

IsZero(x) == x.k = "nzero" \/ (x.k = "fin" /\ x.n = 0)
SignBit(x) == x.k \in {"nzero", "ninf"} \/ (x.k = "fin" /\ x.n < 0)
SignedZero(negative) == IF negative THEN NZero ELSE PZero

\* a * b for finite a and b
FMul(a, b) ==
    IF IsZero(a) \/ IsZero(b) THEN SignedZero(SignBit(a) # SignBit(b))
    ELSE Fin(a.n * b.n, a.d * b.d)

\* a + b for finite a and b that are not negative
FAdd(a, b) == Fin(a.n * b.d + b.n * a.d, a.d * b.d)

\* -a for a finite a
FNeg(a) == IF IsZero(a) THEN SignedZero(~SignBit(a)) ELSE Fin(0 - a.n, a.d)

\* a.abs() for a finite a
FAbs(a) == IF IsZero(a) THEN PZero ELSE Fin(Abs(a.n), a.d)

\* a / b for finite a and b
FDiv(a, b) ==
    IF IsZero(b)
    THEN IF IsZero(a) THEN FNaN
         ELSE IF SignBit(a) # SignBit(b) THEN FNegInf ELSE FInf
    ELSE IF IsZero(a) THEN SignedZero(SignBit(a) # SignBit(b))
    ELSE IF b.n < 0 THEN Fin(0 - a.n * b.d, a.d * (0 - b.n))
    ELSE Fin(a.n * b.d, a.d * b.n)

\* the root of a natural number, exact for the squares the model is run on
ISqrt(n) == CHOOSE r \in 0..n : r * r <= n /\ (r + 1) * (r + 1) > n

\* a.powf(1. / 2.) for a finite a that is not negative
FRoot(a) == IF IsZero(a) THEN PZero ELSE Fin(ISqrt(a.n), ISqrt(a.d))

\* a >= 0. and a < 0. for a finite a: the negative zero is >= 0.
GeZero(a) == IsZero(a) \/ a.n > 0
LtZero(a) == ~GeZero(a)

\* a < b for a finite b > 0: false for a NaN
FLess(a, b) ==
    CASE a.k = "nan" -> FALSE
      [] a.k = "pinf" -> FALSE
      [] a.k = "ninf" -> TRUE
      [] a.k = "nzero" -> TRUE
      [] a.k = "fin" -> a.n * b.d < b.n * a.d

\* 1f32.exp().powf(-11.), between 1 / 59875 and 1 / 59874
ClampThreshold == Fin(1, 59874)

----------------------------------------------------------------------------
(* factorization/seeding.rs: Seed::initialize *)

\* a vector is a function over 0..n-1; the sum of its entries from index i on
RECURSIVE SumSquares(_, _)
SumSquares(vec, i) ==
    IF i >= VecLen(vec) THEN PZero
    ELSE FAdd(FMul(vec[i], vec[i]), SumSquares(vec, i + 1))

\* Norm::norm: the L2 norm
norm(vec) == FRoot(SumSquares(vec, 0))

\* lines 126-136: the mask of the entries >= 0. times the vector
pos_part(vec) ==
    [j \in DOMAIN vec |-> FMul(IF GeZero(vec[j]) THEN One ELSE PZero, vec[j])]

\* lines 138-148: the mask of the entries < 0. times the negated vector
neg_part(vec) ==
    [j \in DOMAIN vec |-> FMul(IF LtZero(vec[j]) THEN One ELSE PZero, FNeg(vec[j]))]

\* mapv_inplace(|x| x * by)
Scaled(vec, by) == [j \in DOMAIN vec |-> FMul(vec[j], by)]

\* scalar / array
Over(scalar, vec) == [j \in DOMAIN vec |-> FDiv(scalar, vec[j])]

\* lines 56-93: column i of W and row i of H
Component(u, s, e, i) ==
    LET uu == u[i]
        vv == e[i]
        uup == pos_part(uu)
        uun == neg_part(uu)
        vvp == pos_part(vv)
        vvn == neg_part(vv)
        n_uup == norm(uup)
        n_uun == norm(uun)
        n_vvp == norm(vvp)
        n_vvn == norm(vvn)
        termp == FMul(n_uup, n_vvp)
        termn == FMul(n_uun, n_vvn)
    IN  IF ~FLess(termp, termn)
        THEN [w |-> Over(FRoot(FMul(s[i], termp)), Scaled(uup, n_uup)),
              h |-> Over(FRoot(FMul(s[i], termp)), Scaled(vvp, n_vvp))]
        ELSE [w |-> Over(FRoot(FMul(s[i], termn)), Scaled(uun, n_uun)),
              h |-> Over(FRoot(FMul(s[i], termn)), Scaled(vvn, n_vvn))]

\* lines 98-112
Clamped(x) == IF FLess(x, ClampThreshold) THEN PZero ELSE x

\* lines 33-52 and 121: the decomposition, the two factors, their first component
seed_begin ==
    /\ fault = "run"
    /\ seed_pc = "start"
    /\ IF seed.kind = "None"
       THEN /\ fault' = "exit"
            /\ UNCHANGED <<w_guard, h_guard, seed_pc, seed_todo>>
       ELSE /\ w_guard' =
                   [cell \in (DOMAIN factors.u[0]) \X (0..(seed.rank - 1)) |->
                       IF cell[2] = 0
                       THEN FMul(FRoot(factors.s[0]), FAbs(factors.u[0][cell[1]]))
                       ELSE PZero]
            /\ h_guard' =
                   [cell \in (0..(seed.rank - 1)) \X (DOMAIN factors.e[0]) |->
                       IF cell[1] = 0
                       THEN FMul(FRoot(factors.s[0]), FAbs(factors.e[0][cell[2]]))
                       ELSE PZero]
            /\ seed_todo' = 1..(seed.rank - 1)
            /\ seed_pc' = "components"
            /\ UNCHANGED fault
    /\ UNCHANGED <<coverages, average_genotypes, variances, variants, snps_map,
                   indels_map, contigs, target_names, target_lengths, sample_names,
                   kfrequencies, variant_counts, variant_sums, last, hist, kmer_seen,
                   calls, gd_pc, todo, variant_info_all, geom_mean_var, geom_mean_dep,
                   tmp_dir, nmf_calls, rankVars, emitVars, hapVars, statVars, parVars, seed,
                   factors>>

\* the item writes its column and its row into the factors as they were cloned
seed_component_cloned(i) ==
    /\ fault = "run"
    /\ seed_pc = "components"
    /\ i \in seed_todo
    /\ LET made == Component(factors.u, factors.s, factors.e, i)
       IN  /\ w_guard' = [cell \in DOMAIN w_guard |->
                             IF cell[2] = i THEN made.w[cell[1]]
                             ELSE IF cell[2] = 0 THEN w_guard[cell] ELSE PZero]
           /\ h_guard' = [cell \in DOMAIN h_guard |->
                             IF cell[1] = i THEN made.h[cell[2]]
                             ELSE IF cell[1] = 0 THEN h_guard[cell] ELSE PZero]
    /\ seed_todo' = seed_todo \ {i}
    /\ UNCHANGED <<aggVars, gd_pc, todo, variant_info_all, geom_mean_var,
                   geom_mean_dep, tmp_dir, nmf_calls, rankVars, emitVars, hapVars,
                   statVars, parVars, seed, factors, seed_pc>>

\* lines 55-94: one item of the parallel loop, under both locks
seed_component(i) ==
    /\ fault = "run"
    /\ seed_pc = "components"
    /\ i \in seed_todo
    /\ LET made == Component(factors.u, factors.s, factors.e, i)
       IN  /\ w_guard' = [cell \in DOMAIN w_guard |->
                             IF cell[2] = i THEN made.w[cell[1]] ELSE w_guard[cell]]
           /\ h_guard' = [cell \in DOMAIN h_guard |->
                             IF cell[1] = i THEN made.h[cell[2]] ELSE h_guard[cell]]
    /\ seed_todo' = seed_todo \ {i}
    /\ UNCHANGED <<aggVars, gd_pc, todo, variant_info_all, geom_mean_var,
                   geom_mean_dep, tmp_dir, nmf_calls, rankVars, emitVars, hapVars,
                   statVars, parVars, seed, factors, seed_pc>>

SeedComponent == \E i \in seed_todo : seed_component(i)

\* lines 95-118: the small entries are set to 0., the factors returned
seed_return ==
    /\ fault = "run"
    /\ seed_pc = "components"
    /\ seed_todo = {}
    /\ w_guard' = [cell \in DOMAIN w_guard |-> Clamped(w_guard[cell])]
    /\ h_guard' = [cell \in DOMAIN h_guard |-> Clamped(h_guard[cell])]
    /\ seed_pc' = "returned"
    /\ UNCHANGED <<aggVars, gd_pc, todo, variant_info_all, geom_mean_var,
                   geom_mean_dep, tmp_dir, nmf_calls, rankVars, emitVars, hapVars,
                   statVars, parVars, seed, factors, seed_todo>>

----------------------------------------------------------------------------
(* Seed::initialize: the matrices of the model and their decompositions *)

\* the matrices have three rows and three columns
Vec3(a, b, c) == (0 :> a) @@ (1 :> b) @@ (2 :> c)
Unit(j) == [r \in DOMAIN Vec3(0, 0, 0) |-> IF r = j THEN One ELSE PZero]
Identity == [j \in DOMAIN Vec3(0, 0, 0) |-> Unit(j)]

\* nonnegative matrices V with singular values and vectors that are quotients:
\* the zero matrix; diag(9, 4, 1); diag(4, 1, 0); and
\* [[52, 36, 0], [36, 73, 0], [0, 0, 225]] / 25
SeedCases ==
    {[s |-> Vec3(PZero, PZero, PZero), u |-> Identity],
     [s |-> Vec3(Fin(9, 1), Fin(4, 1), One), u |-> Identity],
     [s |-> Vec3(Fin(4, 1), One, PZero), u |-> Identity],
     [s |-> Vec3(Fin(9, 1), Fin(4, 1), One),
      u |-> Vec3(Unit(2), Vec3(Fin(3, 5), Fin(4, 5), PZero),
                 Vec3(Fin(0 - 4, 5), Fin(3, 5), PZero))]}

\* the signs of a pair of singular vectors are free: both may be negated, and
\* each on its own when the singular value is 0
Signs(s) ==
    {f \in [{"u", "e"} -> [DOMAIN s -> {1, 0 - 1}]] :
        \A i \in DOMAIN s : ~IsZero(s[i]) => f.u[i] = f.e[i]}

Signed(vectors, signs) ==
    [i \in DOMAIN vectors |->
        IF signs[i] = 1 THEN vectors[i]
        ELSE [j \in DOMAIN vectors[i] |-> FNeg(vectors[i][j])]]

InitSeed ==
    \E case \in SeedCases, rank \in 0..VecLen(Identity) :
        \E signs \in Signs(case.s) :
            /\ new_matrix
            /\ fault = "run"
            /\ last = Call("initialize", 0, 0, NoStats, <<>>, EmptyMap)
            /\ hist = {}
            /\ kmer_seen = {}
            /\ calls = NoCalls
            /\ GdIdle
            /\ threads = 1
            /\ overflow_checks = FALSE
            /\ RankIdle
            /\ EmitIdle
            /\ HapIdle
            /\ StatIdle
            /\ ParIdle
            /\ seed = IF rank = 0 THEN [kind |-> "None", rank |-> 0]
                      ELSE [kind |-> "Nndsvd", rank |-> rank]
            /\ factors = [s |-> case.s, u |-> Signed(case.u, signs.u),
                          e |-> Signed(case.u, signs.e)]
            /\ w_guard = <<>>
            /\ h_guard = <<>>
            /\ seed_pc = "start"
            /\ seed_todo = {}

NextSeed ==
    \/ seed_begin
    \/ SeedComponent
    \/ seed_return

SpecSeed == InitSeed /\ [][NextSeed]_vars

\* an f32 that is >= 0.
NotNegative(x) == x.k = "pinf" \/ IsZero(x) \/ (x.k = "fin" /\ x.n > 0)

\* C18: for a nonnegative V and a rank 0 < r <= min(rows, cols), every entry of the
\* factors W and H that initialize returns is >= 0: none is negative, none is a NaN.
C18_Original ==
    seed_pc = "returned" =>
        /\ \A cell \in DOMAIN w_guard : NotNegative(w_guard[cell])
        /\ \A cell \in DOMAIN h_guard : NotNegative(h_guard[cell])

----------------------------------------------------------------------------
(* The rank scan and the final run: the properties checked *)

\* the invocations in exploratory mode
Exploratory == {c \in nmf_calls : c.exploratory}

\* C19 as stated: once the residuals stored show a rise above the best so far, no
\* further rank is handed to nmf.py in exploratory mode.
C19_Original == [][RiseSeen => Exploratory' = Exploratory]_vars

\* C19: every candidate rank of min_rank + 1..max_rank is handed to nmf.py, once,
\* before the selection starts, whatever the residuals: a residual above the best so
\* far ends the selection loop only and withholds no invocation.
C19_EveryRankScanned ==
    ScanDone =>
        /\ {c.rank : c \in Exploratory} = (min_rank + 1)..max_rank
        /\ Cardinality(Exploratory) = max_rank - min_rank
        /\ \A c \in Exploratory : c.exit = 0

\* the second residual is above the first, and the ranks after it were scanned
C19_Witness ==
    /\ ScanDone
    /\ VecLen(ranks_rss) >= 4
    /\ Gt(ranks_rss[1], ranks_rss[0])
    /\ best_rank = min_rank + 1
    /\ Cardinality(Exploratory) = VecLen(ranks_rss)

\* the invocations in final mode
Final == nmf_calls \ Exploratory

\* generate_distances has come to its end, or the process has
RunOver == fault # "run" \/ gd_pc \in {"read", "routed", "done"}

\* C20: in a run over at least 2 variants in which no invocation fails, nmf.py is
\* invoked in final mode exactly once, after every exploratory task has completed,
\* with the rank the selection rule gives for the residuals and with more
\* iterations than the exploratory runs.
C20_Original ==
    /\ Final # {} => pending = {} /\ gd_pc # "scan"
    /\ (RunOver /\ Len(variant_info_all) >= 2 /\ FailedCalls = {}) =>
           /\ Cardinality(Final) = 1
           /\ \A c \in Final :
                 /\ c.rank = Selected(ranks_rss).rank
                 /\ c.rank \in {d.rank : d \in Exploratory}
                 /\ c.iterations > ExploreIterations

----------------------------------------------------------------------------
(* generate_distances, lines 359-428: the parallel loops worker by worker.   *)
(* A worker is the closure of the inner loop for one position (tid, pos) of  *)
(* the variants map; a step is a stretch of its code between two operations  *)
(* on a Mutex.  The scheduling of the workers is free.                       *)

\* what no step of a worker changes
buildFrame == <<coverages, average_genotypes, variances, variants, snps_map,
                indels_map, contigs, target_names, target_lengths, sample_names,
                kfrequencies, variant_counts, variant_sums, last, hist, kmer_seen,
                calls, gd_pc, tmp_dir, nmf_calls, rankVars, emitVars, hapVars,
                statVars, seedVars, registry>>

\* the positions of the variants map
Positions(vs) == UNION {{<<tid, p>> : p \in DOMAIN vs[tid]} : tid \in DOMAIN vs}

\* the variant a worker is at, and its abundances
VarOf(w) == Head(workers[w].rest)
AbundancesOf(w) == variants[w[1]][w[2]][VarOf(w)]

\* the Mutex m is locked by worker w
Holds(w, m) == mutex[m] = w

\* lines 350-378: the locals of the call, and the workers of its loops
gd_fork ==
    /\ fault = "run"
    /\ gd_pc = "start"
    /\ gd_pc' = "build"
    /\ variant_info_all' = <<>>
    /\ geom_mean_var' = AccumulatorsNew(Len(sample_names))
    /\ geom_mean_dep' = AccumulatorsNew(Len(sample_names))
    /\ todo' = VariantTasks(variants)
    /\ workers' = [w \in Positions(variants) |->
                      [pc |-> "enter",
                       rest |-> KeysAscending(DOMAIN variants[w[1]][w[2]]),
                       sample_idx |-> 0, freqs |-> <<>>, depths |-> <<>>]]
    /\ UNCHANGED <<aggVars, tmp_dir, nmf_calls, rankVars, emitVars, hapVars,
                   statVars, seedVars, mutex, registry>>

\* lines 372-376: the coverages of the contig, and the largest of them
worker_enter(w) ==
    /\ fault = "run"
    /\ gd_pc = "build"
    /\ workers[w].pc = "enter"
    /\ IF w[1] \notin DOMAIN coverages \/ VecLen(coverages[w[1]]) = 0
       THEN fault' = "panic" /\ UNCHANGED workers
       ELSE workers' = [workers EXCEPT ![w].pc = "var"] /\ UNCHANGED fault
    /\ UNCHANGED <<buildFrame, todo, variant_info_all, geom_mean_var,
                   geom_mean_dep, mutex>>

\* the worker has done with the variant it is at
NextVar(w) ==
    [workers EXCEPT ![w].rest = Tail(@),
                    ![w].pc = IF Len(workers[w].rest) = 1 THEN "done" ELSE "var"]

\* lines 381-387: the next variant of the position; a reference entry is passed by
worker_var(w) ==
    /\ fault = "run"
    /\ gd_pc = "build"
    /\ workers[w].pc = "var"
    /\ IF Contains(VarOf(w), "R")
       THEN /\ workers' = NextVar(w)
            /\ todo' = todo \ {<<w[1], w[2], VarOf(w)>>}
       ELSE /\ workers' = [workers EXCEPT ![w].pc = "sample", ![w].sample_idx = 0,
                                          ![w].freqs = <<>>, ![w].depths = <<>>]
            /\ UNCHANGED todo
    /\ UNCHANGED <<buildFrame, fault, variant_info_all, geom_mean_var,
                   geom_mean_dep, mutex>>

\* lines 390-394 and 410-414: the next sample of the variant; freqs.push(1.) where
\* the count is not above zero
worker_sample(w) ==
    /\ fault = "run"
    /\ gd_pc = "build"
    /\ workers[w].pc = "sample"
    /\ LET s == workers[w].sample_idx
       IN  workers' =
               IF s >= VecLen(AbundancesOf(w))
               THEN [workers EXCEPT ![w].pc = "lock_info"]
               ELSE IF AbundancesOf(w)[s][1] > 0
               THEN [workers EXCEPT ![w].pc = "lock_first"]
               ELSE [workers EXCEPT ![w].freqs = Append(@, 1),
                                    ![w].sample_idx = s + 1]
    /\ UNCHANGED <<buildFrame, fault, todo, variant_info_all, geom_mean_var,
                   geom_mean_dep, mutex>>

\* lines 396-399: geom_mean_var.lock(), then geom_mean_dep.lock()
LockOrder(w) == <<"geom_mean_var", "geom_mean_dep">>

\* lines 396-397: the first lock() returns when the Mutex is free
worker_lock_first(w) ==
    /\ fault = "run"
    /\ gd_pc = "build"
    /\ workers[w].pc = "lock_first"
    /\ mutex[LockOrder(w)[1]] = Free
    /\ mutex' = [mutex EXCEPT ![LockOrder(w)[1]] = w]
    /\ workers' = [workers EXCEPT ![w].pc = "lock_second"]
    /\ UNCHANGED <<buildFrame, fault, todo, variant_info_all, geom_mean_var,
                   geom_mean_dep>>

\* lines 398-399: the second lock() returns when the Mutex is free
worker_lock_second(w) ==
    /\ fault = "run"
    /\ gd_pc = "build"
    /\ workers[w].pc = "lock_second"
    /\ mutex[LockOrder(w)[2]] = Free
    /\ mutex' = [mutex EXCEPT ![LockOrder(w)[2]] = w]
    /\ workers' = [workers EXCEPT ![w].pc = "update"]
    /\ UNCHANGED <<buildFrame, fault, todo, variant_info_all, geom_mean_var,
                   geom_mean_dep>>

\* lines 401-409: the update of both accumulators under both locks; the guards are
\* dropped where the block ends
worker_update(w) ==
    /\ fault = "run"
    /\ gd_pc = "build"
    /\ workers[w].pc = "update"
    /\ LET s == workers[w].sample_idx
           count == AbundancesOf(w)[s][1]
           d == AbundancesOf(w)[s][2]
       IN  IF s \notin DOMAIN coverages[w[1]] \/ s \notin DOMAIN geom_mean_var
           THEN /\ fault' = "panic"
                /\ UNCHANGED <<workers, mutex, geom_mean_var, geom_mean_dep>>
           ELSE /\ geom_mean_var' =
                       [geom_mean_var EXCEPT ![s] = AddLn(@, count + 1)]
                /\ geom_mean_dep' =
                       [geom_mean_dep EXCEPT ![s] = AddLn(@, d + 1)]
                /\ workers' = [workers EXCEPT ![w].freqs = Append(@, count + 1),
                                              ![w].depths = Append(@, d + 1),
                                              ![w].sample_idx = s + 1,
                                              ![w].pc = "sample"]
                /\ mutex' = [mutex EXCEPT !["geom_mean_var"] = Free,
                                          !["geom_mean_dep"] = Free]
                /\ UNCHANGED fault
    /\ UNCHANGED <<buildFrame, todo, variant_info_all>>

\* lines 419-420: variant_info_all.lock() returns when the Mutex is free
worker_lock_info(w) ==
    /\ fault = "run"
    /\ gd_pc = "build"
    /\ workers[w].pc = "lock_info"
    /\ mutex["variant_info_all"] = Free
    /\ mutex' = [mutex EXCEPT !["variant_info_all"] = w]
    /\ workers' = [workers EXCEPT ![w].pc = "push"]
    /\ UNCHANGED <<buildFrame, fault, todo, variant_info_all, geom_mean_var,
                   geom_mean_dep>>

\* lines 423-427: the tuple is pushed; the guard is dropped where the block ends
worker_push(w) ==
    /\ fault = "run"
    /\ gd_pc = "build"
    /\ workers[w].pc = "push"
    /\ variant_info_all' =
           Append(variant_info_all,
                  [position |-> w[2], var |-> VarOf(w),
                   depths |-> workers[w].depths, freqs |-> workers[w].freqs,
                   tid |-> w[1]])
    /\ mutex' = [mutex EXCEPT !["variant_info_all"] = Free]
    /\ workers' = NextVar(w)
    /\ todo' = todo \ {<<w[1], w[2], VarOf(w)>>}
    /\ UNCHANGED <<buildFrame, fault, geom_mean_var, geom_mean_dep>>

\* a step of some worker of the loops
WorkerStep ==
    \E w \in DOMAIN workers :
        \/ worker_enter(w)
        \/ worker_var(w)
        \/ worker_sample(w)
        \/ worker_lock_first(w)
        \/ worker_lock_second(w)
        \/ worker_update(w)
        \/ worker_lock_info(w)
        \/ worker_push(w)

\* the variant abundances of the samples of a run
WorkerA == (10 :> (<<"A">> :> <<2, 7>>))
           @@ (12 :> ((<<"C">> :> <<5, 9>>) @@ (<<"R">> :> <<6, 9>>)))
WorkerB == (10 :> (<<"A">> :> <<0, 8>>)) @@ (12 :> (<<"C">> :> <<4, 4>>))
WorkerC == OneVariant(11, <<"G">>, <<5, 11>>)

\* the add_contig calls (tid, sample_idx, variant abundances) before the call
WorkerRuns ==
    {<<<<0, 0, WorkerA>>, <<0, 1, WorkerB>>>>,
     <<<<0, 0, WorkerA>>, <<1, 0, WorkerC>>>>,
     <<<<0, 1, WorkerC>>>>}

\* generate_distances is called on a matrix that the aggregation calls filled
InitWorkers ==
    \E run \in WorkerRuns :
        /\ MatrixIs(MatrixAfter(run))
        /\ sample_names = [i \in 1..MaxSamples |-> SampleName(i - 1)]
        /\ kfrequencies = EmptyMap
        /\ fault = "run"
        /\ last = Call("generate_distances", 0, 0, NoStats, <<>>, EmptyMap)
        /\ hist = {}
        /\ kmer_seen = {}
        /\ calls = NoCalls
        /\ gd_pc = "start"
        /\ todo = {}
        /\ variant_info_all = <<>>
        /\ geom_mean_var = <<>>
        /\ geom_mean_dep = <<>>
        /\ tmp_dir = "none"
        /\ nmf_calls = {}
        /\ threads = 1
        /\ overflow_checks = FALSE
        /\ RankIdle
        /\ EmitIdle
        /\ NoClusters
        /\ PostIdle

NextWorkers ==
    \/ gd_fork
    \/ WorkerStep
    \/ gd_collect

SpecWorkers == InitWorkers /\ [][NextWorkers]_vars

----------------------------------------------------------------------------
(* The parallel feature build: the properties checked *)

\* the workers of the loops have all returned
WorkersJoined ==
    /\ fault = "run"
    /\ gd_pc = "build"
    /\ DOMAIN workers # {}
    /\ \A w \in DOMAIN workers : workers[w].pc = "done"

NotReference(task) == ~Contains(task[3], "R")

\* the variants that are no reference placeholder, by contig, position and key
RECURSIVE SerialTasks(_, _, _)
SerialTasks(vs, tids, i) ==
    IF i > Len(tids) THEN <<>>
    ELSE SelectSeq(ContigTasks(vs, tids[i], Ascending(DOMAIN vs[tids[i]]), 1),
                   NotReference)
         \o SerialTasks(vs, tids, i + 1)

\* the accumulators after one worker has taken every variant, in the order of the
\* keys of the maps
SerialSums(field) ==
    LET tasks == SerialTasks(variants, Ascending(DOMAIN variants), 1)
    IN  AccumulatedOver(variants, tasks, Len(tasks), field)

\* C21: whatever the interleaving of the workers, the accumulators are the same
\* when the workers have joined (those of the workers running one after the other),
\* and the feature list holds one tuple for each (contig, position, variant) that is
\* no reference placeholder: none is lost, none is there twice.
C21_Original ==
    WorkersJoined =>
        LET tasks == SerialTasks(variants, Ascending(DOMAIN variants), 1)
        IN  /\ geom_mean_var = SerialSums(1)
            /\ geom_mean_dep = SerialSums(2)
            /\ Len(variant_info_all) = Len(tasks)
            /\ {variant_info_all[i] : i \in 1..Len(variant_info_all)}
                   = {FeatureOf(variants, tasks[i]) : i \in 1..Len(tasks)}

----------------------------------------------------------------------------
(* Seed::initialize: the items of the parallel loop, the properties checked *)

\* a step of the parallel loop: item i has run
ItemRan(i) ==
    /\ seed_pc = "components"
    /\ seed_pc' = "components"
    /\ i \in seed_todo
    /\ seed_todo' = seed_todo \ {i}

\* the entry of W, and of H, that initialize returns for a cell, from the
\* decomposition alone
ReturnedW(cell) ==
    Clamped(IF cell[2] = 0
            THEN FMul(FRoot(factors.s[0]), FAbs(factors.u[0][cell[1]]))
            ELSE Component(factors.u, factors.s, factors.e, cell[2]).w[cell[1]])

ReturnedH(cell) ==
    Clamped(IF cell[1] = 0
            THEN FMul(FRoot(factors.s[0]), FAbs(factors.e[0][cell[2]]))
            ELSE Component(factors.u, factors.s, factors.e, cell[1]).h[cell[2]])

\* C22: the item for component i of the parallel loop changes no entry of W outside
\* column i and no entry of H outside row i, so column 0 of W and row 0 of H stay
\* as they were set before the loop; and the W and H returned are the same whatever
\* the order of the items: each entry is the one its own component gives.
C22_ItemsWriteOwnComponent ==
    /\ [][\A i \in seed_todo :
            ItemRan(i) =>
                /\ 1 <= i /\ i < seed.rank
                /\ \A cell \in DOMAIN w_guard :
                      cell[2] # i => w_guard'[cell] = w_guard[cell]
                /\ \A cell \in DOMAIN h_guard :
                      cell[1] # i => h_guard'[cell] = h_guard[cell]]_vars
    /\ [](seed_pc = "returned" =>
            /\ \A cell \in DOMAIN w_guard : w_guard[cell] = ReturnedW(cell)
            /\ \A cell \in DOMAIN h_guard : h_guard[cell] = ReturnedH(cell))

\* the item of component 2 has run before the item of component 1: column 2 of W
\* is written, column 1 still holds the zeros of line 39
C22_Witness ==
    /\ seed_pc = "components"
    /\ seed.rank = 3
    /\ seed_todo = {1}
    /\ \E cell \in DOMAIN w_guard : cell[2] = 2 /\ w_guard[cell] # PZero
    /\ \A cell \in DOMAIN w_guard : cell[2] = 1 => w_guard[cell] = PZero
    /\ \E cell \in DOMAIN w_guard : cell[2] = 0 /\ w_guard[cell] # PZero

----------------------------------------------------------------------------
(* generate_genotypes: the discovery of the root labels, the properties checked *)

\* the statements of generate_genotypes run one after the other until it returns
SpecGenotypesFair == SpecGenotypes /\ WF_vars(NextGenotypes)

\* the dendrogram has steps (n >= 2 leaves), and 1 <= k <= n
RootsAsked ==
    /\ Len(dendrogram) > 0
    /\ Cardinality(DOMAIN clusters_mean) \in 1..(Len(dendrogram) + 1)

\* the largest label of S replaced by the two children of its step, until k
\* labels are left
RECURSIVE Replaced(_, _, _)
Replaced(S, k, dendro) ==
    IF Cardinality(S) >= k THEN S
    ELSE LET largest == CHOOSE m \in S : \A x \in S : x <= m
             step == dendro[largest - Len(dendro)]
         IN  Replaced((S \ {largest}) \cup {step.cluster1, step.cluster2}, k, dendro)

\* the label of the final step for k = 1; else the labels left of the children of
\* the final step
RootLabels(k, dendro) ==
    IF k = 1 THEN {Len(dendro) + 1 + (Len(dendro) - 1)}
    ELSE Replaced({dendro[Len(dendro)].cluster1, dendro[Len(dendro)].cluster2},
                  k, dendro)

\* C23: for a dendrogram over n >= 2 leaves and 1 <= k <= n, the discovery of the
\* root labels does not fail, every pass of its loop lengthens the list, it comes
\* to its end, and it leaves exactly k distinct labels: the label of the final step
\* for k = 1, else the labels left after the largest pending label has been replaced
\* by the two children of its step, starting from the children of the final step.
C23_RootDiscoveryEnds ==
    /\ []((RootsAsked /\ gg_pc = "roots") => fault = "run")
    /\ [][(RootsAsked /\ gg_pc = "roots" /\ gg_pc' = "roots")
            => Len(cluster_root_labels') > Len(cluster_root_labels)]_vars
    /\ (RootsAsked /\ gg_pc = "roots") ~> (gg_pc = "haplotypes")
    /\ []((RootsAsked /\ gg_pc = "haplotypes") =>
            LET k == Cardinality(DOMAIN clusters_mean)
                labels == {cluster_root_labels[i] : i \in DOMAIN cluster_root_labels}
            IN  /\ Len(cluster_root_labels) = k
                /\ Cardinality(labels) = k
                /\ labels = RootLabels(k, dendrogram))

\* three roots of a dendrogram over four leaves whose final step merges two steps:
\* two passes of the loop, the second of which replaced the larger child of the
\* final step by its own two children
C23_Witness ==
    /\ fault = "run"
    /\ gg_pc = "haplotypes"
    /\ Len(dendrogram) = 3
    /\ Cardinality(DOMAIN clusters_mean) = 3
    /\ Len(haplotypes_vec) = 0
    /\ Len(cluster_root_labels) = 3
    /\ dendrogram[3].cluster1 > Len(dendrogram)
    /\ dendrogram[3].cluster2 > Len(dendrogram)
    /\ cluster_root_labels[1] = dendrogram[3].cluster1

----------------------------------------------------------------------------
(* add_contig and setup: the tables and the maps, the properties checked *)

\* the add_contig call that just returned had no variant position
ZeroVariantsAdded == Added /\ last.st.total_variants = 0

\* every row of the table has an entry, and every entry is 0.
ZerosOnly(table) ==
    \A row \in DOMAIN table :
        /\ VecLen(table[row]) > 0
        /\ \A i \in DOMAIN table[row] : RatEq(table[row][i], ZeroF)

\* C24: after an add_contig call for (sample, contig) with no variant position,
\* the variant count of the pair is 0 and its sum table has rows, none of them
\* empty, that hold zeros only.
C24_Original ==
    ZeroVariantsAdded =>
        /\ variant_counts[last.sample_idx][last.tid] = 0
        /\ DOMAIN variant_sums[last.sample_idx][last.tid] # {}
        /\ ZerosOnly(variant_sums[last.sample_idx][last.tid])

\* the add_contig call that was just made ended in an index past the end of the
\* sum table of its (sample, contig)
WroteOutside ==
    /\ fault = "panic"
    /\ last.op = "add_contig"
    /\ SumsOutOfRange(variant_sums, last.st, last.sample_idx, last.order)

\* C26: after any add_contig calls, repeated ones for the same (contig, sample)
\* with other variants among them, every sum table recorded has three rows, each
\* of length max(1, c) for the variant count c recorded for its (sample, contig),
\* and no call has indexed a table past its end.
C26_Original ==
    /\ ~WroteOutside
    /\ fault = "run" =>
          \A s \in DOMAIN variant_sums : \A tid \in DOMAIN variant_sums[s] :
              LET c == variant_counts[s][tid]
              IN  /\ DOMAIN variant_sums[s][tid] = 0..2
                  /\ \A row \in 0..2 :
                        VecLen(variant_sums[s][tid][row]) = IF c > 1 THEN c ELSE 1

----------------------------------------------------------------------------
(* The rank search: its arithmetic, the property checked *)

\* the run ended in the division of line 512
DivisionFailed == fault = "panic" /\ gd_pc = "distances"

\* C25: with n >= 2 variants the rank search ends in no arithmetic fault, the
\* divisor max_rank - min_rank - 1 of the thread count being above zero, and the
\* rank of the final factorization is a rank that was scanned, so it is >= 1.
C25_Original ==
    Len(variant_info_all) >= 2 =>
        /\ ~DivisionFailed
        /\ gd_pc \in {"scan", "select", "final"} => ThreadDivisor > 0
        /\ \A c \in Final : c.rank \in Handed /\ c.rank >= 1

\* the call that just returned is setup
SetupCalled == fault = "run" /\ last.op = "setup"

\* C27: after setup() every aggregated field is as new_matrix() makes it: no
\* coverage, variance, mean genotype, variant, SNP or indel set, contig, name,
\* length, sample name, k-mer count, variant count or sum table of before the
\* call is left.
C27_Original ==
    SetupCalled =>
        /\ coverages = EmptyMap
        /\ variances = EmptyMap
        /\ average_genotypes = EmptyMap
        /\ variants = EmptyMap
        /\ snps_map = EmptyMap
        /\ indels_map = EmptyMap
        /\ contigs = EmptyMap
        /\ target_names = EmptyMap
        /\ target_lengths = EmptyMap
        /\ sample_names = <<>>
        /\ kfrequencies = EmptyMap
        /\ variant_counts = EmptyMap
        /\ variant_sums = EmptyMap

\* the contig ids of a map
Ids(m) == DOMAIN m

\* C28: in every state that add_sample, add_kmers, add_contig and setup calls
\* reach, the maps coverages, average_genotypes, variants, snps_map, indels_map,
\* contigs, target_names and target_lengths have the same contig ids: a contig
\* with an entry in variants has coverages, one for each sample, and the lookup
\* coverages.get(tid) of generate_distances finds them.
C28_SameContigIds ==
    fault = "run" =>
        /\ \A m \in {Ids(average_genotypes), Ids(variants), Ids(snps_map),
                     Ids(indels_map), Ids(contigs), Ids(target_names),
                     Ids(target_lengths)} : m = Ids(coverages)
        /\ \A tid \in Ids(variants) :
              tid \in Ids(coverages) /\ VecLen(coverages[tid]) > 0

\* a contig was recorded and cleared by setup, k-mers were added, and the other
\* contig was recorded after it, with a variant
C28_Witness ==
    /\ Added
    /\ calls.setup = 1
    /\ calls.add_kmers > 0
    /\ Ids(variances) = {0, 1}
    /\ Ids(variants) = {1}
    /\ DOMAIN variants[1] # {}

\* the step is an add_contig call that returns
AddContigReturns ==
    /\ calls'.add_contig = calls.add_contig + 1
    /\ fault' = "run"

\* the slots of the vectors of m, but the slot s of contig c, are left as they were
SlotsKept(m, after, c, s) ==
    \A tid \in DOMAIN m : \A i \in DOMAIN m[tid] :
        (tid # c \/ i # s) => after[tid][i] = m[tid][i]

\* the entries of m for the contigs other than c are left as they were
OthersKept(m, after, c) == \A tid \in DOMAIN m \ {c} : after[tid] = m[tid]

\* C29: an add_contig call for contig c and sample index s changes no coverage,
\* variance or mean-genotype slot and no (count, depth) slot of a variant of
\* another sample index on contig c, and nothing that is stored for another contig.
C29_OtherSlotsKept ==
    [][AddContigReturns =>
         LET c == last'.tid
             s == last'.sample_idx
         IN  /\ SlotsKept(coverages, coverages', c, s)
             /\ SlotsKept(variances, variances', c, s)
             /\ SlotsKept(average_genotypes, average_genotypes', c, s)
             /\ \A tid \in DOMAIN variants : \A p \in DOMAIN variants[tid] :
                   \A variant \in DOMAIN variants[tid][p] :
                       \A i \in DOMAIN variants[tid][p][variant] :
                           (tid # c \/ i # s) =>
                               variants'[tid][p][variant][i]
                                   = variants[tid][p][variant][i]
             /\ OthersKept(snps_map, snps_map', c)
             /\ OthersKept(indels_map, indels_map', c)
             /\ OthersKept(contigs, contigs', c)
             /\ OthersKept(target_names, target_names', c)
             /\ OthersKept(target_lengths, target_lengths', c)
             /\ \A i \in DOMAIN variant_sums :
                   OthersKept(variant_sums[i], variant_sums'[i], c)
             /\ \A i \in DOMAIN variant_counts :
                   OthersKept(variant_counts[i], variant_counts'[i], c)
             /\ kfrequencies' = kfrequencies]_vars

\* contig 1 is recorded, sample 0 of contig 0 holds the scalars (4, 5, 6) and its
\* variant, and the call that just returned wrote the scalars (1, 2, 3) of sample 1
\* of contig 0
C29_Witness ==
    /\ Added
    /\ last.tid = 0
    /\ last.sample_idx = 1
    /\ 1 \in DOMAIN coverages
    /\ coverages[0][0] = 4 /\ variances[0][0] = 5 /\ average_genotypes[0][0] = 6
    /\ coverages[0][1] = 1 /\ variances[0][1] = 2 /\ average_genotypes[0][1] = 3
    /\ variants[0][10][<<"A">>][0] = <<5, 10>>

----------------------------------------------------------------------------
(* Seed::initialize: the loop of lines 55-94 on the threads of the rayon pool *)

\* Each thread of the pool has a deque of jobs. A join pushes its second half on
\* the deque of the thread that calls it and runs the first half; the thread
\* then takes its newest job back, and when another thread took the half, it
\* runs other jobs until the half is done. A thread with no job of its own takes
\* the oldest job of another thread. lock() blocks the thread until the Mutex
\* is free, whoever holds it. The two par_mapv_inplace calls that an item makes
\* under the locks are followed as one join; the calls of pos and neg (lines
\* 58-61), made with no lock held, are run by the thread that makes them.

\* the threads of the pool
PoolSize == 3
PoolThreads == 1..PoolSize

\* a job of the pool: the items lo..(hi - 1) of the loop of line 55, or the second
\* half of the par_mapv_inplace that item lo called
Items(lo, hi) == [kind |-> "items", lo |-> lo, hi |-> hi]
Half(i) == [kind |-> "half", lo |-> i, hi |-> i]

\* line 55, into_par_iter().for_each: a range of more than one item is halved,
\* the right half is pushed on the deque of the thread and the left half is kept
RECURSIVE Splits(_, _)
Splits(lo, hi) ==
    IF hi - lo <= 1 THEN <<>>
    ELSE LET mid == lo + ((hi - lo) \div 2)
         IN  <<Items(mid, hi)>> \o Splits(lo, mid)

\* the calls a thread is in, the innermost last: the item and the place in it
Frame(i, pc) == [item |-> i, pc |-> pc]
Stack(t) == registry.stack[t]
Top(t) == Stack(t)[Len(Stack(t))]
At(t, pc) == Stack(t) # <<>> /\ Top(t).pc = pc

\* the thread has no call to go on with: it is idle, or it is inside
\* par_mapv_inplace, which waits for a half that another thread took
Looking(t) ==
    \/ Stack(t) = <<>>
    \/ At(t, "wait") /\ Top(t).item \notin registry.latch

\* the pool after thread t took the job out of the deques: a range is halved down
\* to its first item, which is called; the half that the thread pushed itself is
\* run where it is; another half is called
Begun(t, job, deque) ==
    IF job.kind = "items"
    THEN [registry EXCEPT !.deque = [deque EXCEPT ![t] = @ \o Splits(job.lo, job.hi)],
                          !.stack[t] = Append(@, Frame(job.lo, "lock_w"))]
    ELSE IF At(t, "wait") /\ Top(t).item = job.lo
    THEN [registry EXCEPT !.deque = deque,
                          !.stack[t][Len(Stack(t))].pc = "write"]
    ELSE [registry EXCEPT !.deque = deque,
                          !.stack[t] = Append(@, Frame(job.lo, "half"))]

poolFrame == <<aggVars, gd_pc, todo, variant_info_all, geom_mean_var,
               geom_mean_dep, tmp_dir, nmf_calls, rankVars, emitVars, hapVars,
               statVars, seed, factors, seed_pc, workers, fault>>

\* a thread with no call to go on with takes the job it pushed last
pool_pop(t) ==
    /\ fault = "run"
    /\ seed_pc = "components"
    /\ Looking(t)
    /\ registry.deque[t] # <<>>
    /\ LET own == registry.deque[t]
       IN  registry' = Begun(t, own[Len(own)],
                             [registry.deque EXCEPT
                                  ![t] = SubSeq(own, 1, Len(own) - 1)])
    /\ UNCHANGED <<poolFrame, mutex, w_guard, h_guard, seed_todo>>

\* a thread with no call to go on with and no job of its own takes the oldest job
\* of another thread
pool_steal(t) ==
    /\ fault = "run"
    /\ seed_pc = "components"
    /\ Looking(t)
    /\ registry.deque[t] = <<>>
    /\ \E victim \in PoolThreads \ {t} :
          /\ registry.deque[victim] # <<>>
          /\ registry' = Begun(t, Head(registry.deque[victim]),
                               [registry.deque EXCEPT ![victim] = Tail(@)])
    /\ UNCHANGED <<poolFrame, mutex, w_guard, h_guard, seed_todo>>

\* lines 70 and 82: w_guard.lock() returns when the Mutex is free
pool_lock_w(t) ==
    /\ fault = "run"
    /\ seed_pc = "components"
    /\ At(t, "lock_w")
    /\ mutex["w_guard"] = Free
    /\ mutex' = [mutex EXCEPT !["w_guard"] = <<t>>]
    /\ registry' = [registry EXCEPT !.stack[t][Len(Stack(t))].pc = "lock_h"]
    /\ UNCHANGED <<poolFrame, w_guard, h_guard, seed_todo>>

\* lines 71 and 83: h_guard.lock() returns when the Mutex is free
pool_lock_h(t) ==
    /\ fault = "run"
    /\ seed_pc = "components"
    /\ At(t, "lock_h")
    /\ mutex["h_guard"] = Free
    /\ mutex' = [mutex EXCEPT !["h_guard"] = <<t>>]
    /\ registry' = [registry EXCEPT !.stack[t][Len(Stack(t))].pc = "mapv"]
    /\ UNCHANGED <<poolFrame, w_guard, h_guard, seed_todo>>

\* lines 73-75 and 85-87, par_mapv_inplace under both locks: a vector of more
\* than one entry is halved, the second half is pushed on the deque of the thread
\* and the first half is run
pool_mapv(t) ==
    /\ fault = "run"
    /\ seed_pc = "components"
    /\ At(t, "mapv")
    /\ registry' =
           IF Cardinality(DOMAIN factors.u[0]) > 1
           THEN [registry EXCEPT !.deque[t] = Append(@, Half(Top(t).item)),
                                 !.stack[t][Len(Stack(t))].pc = "wait"]
           ELSE [registry EXCEPT !.stack[t][Len(Stack(t))].pc = "write"]
    /\ UNCHANGED <<poolFrame, mutex, w_guard, h_guard, seed_todo>>

\* the thread that took the second half has run it
pool_half(t) ==
    /\ fault = "run"
    /\ seed_pc = "components"
    /\ At(t, "half")
    /\ registry' = [registry EXCEPT
                        !.latch = @ \cup {Top(t).item},
                        !.stack[t] = SubSeq(@, 1, Len(@) - 1)]
    /\ UNCHANGED <<poolFrame, mutex, w_guard, h_guard, seed_todo>>

\* par_mapv_inplace returns when the half that another thread took has been run
pool_resume(t) ==
    /\ fault = "run"
    /\ seed_pc = "components"
    /\ At(t, "wait")
    /\ Top(t).item \in registry.latch
    /\ registry' = [registry EXCEPT !.stack[t][Len(Stack(t))].pc = "write"]
    /\ UNCHANGED <<poolFrame, mutex, w_guard, h_guard, seed_todo>>

\* lines 77-81 and 89-93: the column and the row of the item are assigned, and
\* both guards are dropped where the block ends
pool_write(t) ==
    /\ fault = "run"
    /\ seed_pc = "components"
    /\ At(t, "write")
    /\ LET i == Top(t).item
           made == Component(factors.u, factors.s, factors.e, i)
       IN  /\ w_guard' = [cell \in DOMAIN w_guard |->
                             IF cell[2] = i THEN made.w[cell[1]] ELSE w_guard[cell]]
           /\ h_guard' = [cell \in DOMAIN h_guard |->
                             IF cell[1] = i THEN made.h[cell[2]] ELSE h_guard[cell]]
           /\ seed_todo' = seed_todo \ {i}
    /\ mutex' = [mutex EXCEPT !["w_guard"] = Free, !["h_guard"] = Free]
    /\ registry' = [registry EXCEPT !.stack[t] = SubSeq(@, 1, Len(@) - 1)]
    /\ UNCHANGED poolFrame

PoolStep ==
    \E t \in PoolThreads :
        \/ pool_pop(t)
        \/ pool_steal(t)
        \/ pool_lock_w(t)
        \/ pool_lock_h(t)
        \/ pool_mapv(t)
        \/ pool_half(t)
        \/ pool_resume(t)
        \/ pool_write(t)

\* the matrices have four rows and four columns: diag(16, 9, 4, 1) and
\* diag(9, 4, 1, 0)
Vec4(a, b, c, d) == (0 :> a) @@ (1 :> b) @@ (2 :> c) @@ (3 :> d)
Identity4 ==
    [j \in DOMAIN Vec4(0, 0, 0, 0) |->
        [r \in DOMAIN Vec4(0, 0, 0, 0) |-> IF r = j THEN One ELSE PZero]]
PoolCases ==
    {[s |-> Vec4(Fin(16, 1), Fin(9, 1), Fin(4, 1), One), u |-> Identity4],
     [s |-> Vec4(Fin(9, 1), Fin(4, 1), One, PZero), u |-> Identity4]}

\* initialize is called; the threads of the pool are idle, and the range of the
\* loop of line 55 is the one job of the pool
InitPool ==
    \E case \in PoolCases, rank \in 0..VecLen(Identity4) :
        \E signs \in Signs(case.s) :
            /\ new_matrix
            /\ fault = "run"
            /\ last = Call("initialize", 0, 0, NoStats, <<>>, EmptyMap)
            /\ hist = {}
            /\ kmer_seen = {}
            /\ calls = NoCalls
            /\ GdIdle
            /\ threads = 1
            /\ overflow_checks = FALSE
            /\ RankIdle
            /\ EmitIdle
            /\ HapIdle
            /\ StatIdle
            /\ workers = <<>>
            /\ mutex = MutexNew
            /\ registry = [stack |-> [t \in PoolThreads |-> <<>>],
                           deque |-> [t \in PoolThreads |->
                                         IF t = 1 /\ rank > 1
                                         THEN <<Items(1, rank)>> ELSE <<>>],
                           latch |-> {}]
            /\ seed = IF rank = 0 THEN [kind |-> "None", rank |-> 0]
                      ELSE [kind |-> "Nndsvd", rank |-> rank]
            /\ factors = [s |-> case.s, u |-> Signed(case.u, signs.u),
                          e |-> Signed(case.u, signs.e)]
            /\ w_guard = <<>>
            /\ h_guard = <<>>
            /\ seed_pc = "start"
            /\ seed_todo = {}

\* the two parallel loops, step by step
InitLocks == InitWorkers \/ InitPool

NextLocks ==
    \/ gd_fork
    \/ WorkerStep
    \/ gd_collect
    \/ seed_begin
    \/ PoolStep
    \/ seed_return

SpecLocks == InitLocks /\ [][NextLocks]_vars

----------------------------------------------------------------------------
(* the locks of the two parallel loops *)

\* the holder of the depth accumulator holds the variant accumulator, the holder
\* of the feature list holds neither accumulator, and the holder of H holds W
LockOrderKept ==
    /\ mutex["geom_mean_dep"] # Free
           => mutex["geom_mean_var"] = mutex["geom_mean_dep"]
    /\ mutex["variant_info_all"] # Free
           => /\ mutex["geom_mean_var"] # mutex["variant_info_all"]
              /\ mutex["geom_mean_dep"] # mutex["variant_info_all"]
    /\ mutex["h_guard"] # Free => mutex["w_guard"] = mutex["h_guard"]

\* the thread can take a step: it is at the assignments of lines 77-81 or 89-93,
\* which wait for nothing, or one of its other steps is enabled
Ready(t) ==
    \/ At(t, "write")
    \/ ENABLED (\/ pool_pop(t)
                \/ pool_steal(t)
                \/ pool_lock_w(t)
                \/ pool_lock_h(t)
                \/ pool_mapv(t)
                \/ pool_half(t)
                \/ pool_resume(t))

\* while a loop has work left, one of its workers can take a step
LoopsGoOn ==
    /\ (fault = "run" /\ gd_pc = "build" /\ todo # {}) => ENABLED WorkerStep
    /\ (fault = "run" /\ seed_pc = "components" /\ seed_todo # {})
           => \E t \in PoolThreads : Ready(t)

\* C30 (as stated): in generate_distances the variant accumulator is locked before
\* the depth accumulator and both are released before the feature list is locked,
\* in initialize the W lock is taken before the H lock, and no interleaving of the
\* workers leaves a loop with work that no worker can go on with.
C30_Original == LockOrderKept /\ LoopsGoOn

====
